---- MODULE Spec2Model ----
(***************************************************************************)
(* Model of the openplantbook-mcp condition evaluator and care-summary     *)
(* renderer (internal/server: formatCareSummary, interpretLightLevel,      *)
(* interpretMoistureLevel, compareConditions), of the four tool handlers   *)
(* running concurrently (SpecServer), of LoadConfig and New (SpecConfig),  *)
(* and of main with Run in its goroutine (SpecMain).                       *)
(*                                                                         *)
(* float64 quantities are fixed-point integers counting 1/Scale units      *)
(* (Scale = 50).  Inputs are drawn at one-decimal granularity (multiples   *)
(* of Scale/10), so every comparison and subtraction of the code is exact  *)
(* in the model, C*9/5+32 is an exact count of fiftieths, and "%.1f" never *)
(* meets a tie; "%.0f" meets ties only at x.5, which float64 holds exactly *)
(* and Go rounds half-to-even.                                             *)
(*                                                                         *)
(* Rendered text is a sequence of line records; a line keeps the fixed     *)
(* text of its format string and the numbers as they are printed (%d and   *)
(* %.0f as integers, %.1f as a count of tenths).                           *)
(***************************************************************************)
EXTENDS Integers, Sequences, FiniteSets

\* the evaluator: the function applied last, its arguments and its result
VARIABLES pc, fn, details, metric, conditions, argMin, argMax,
          summary, analysis, tag

\* the server: the Server value, whether the process is up, how many
\* invocations ended in an error so far, and for every invocation in flight
\* its position, request, trace id, upstream call and response, the number
\* of upstream calls it made, the renderer it ran, and what it returned
VARIABLES srv, alive, failed, wpc, req, trace, upCall, resp, nCalls, ran, res, goErr

\* configuration and construction: the function applied last (LoadConfig or
\* New), its inputs and what it returned
VARIABLES cpc, cfn, cin, cout

\* the process: where main and the goroutine running Run stand, the config
\* and Server main holds, the two channels, whether the context is
\* cancelled, the exit status (-1 while the process runs) and what led to
\* it, the select branch main took, whether "shutdown complete" is logged,
\* the tools registered so far, what Run returned, and the tool call the
\* transport dispatched last
VARIABLES mpc, gpc, mcfg, msrv, sigChan, errChan, cancelled, exitCode, exitCause,
          branch, logged, tools, runErr, lastCall

evalVars == <<pc, fn, details, metric, conditions, argMin, argMax,
              summary, analysis, tag>>

srvVars == <<srv, alive, failed, wpc, req, trace, upCall, resp, nCalls, ran, res, goErr>>

cfgVars == <<cpc, cfn, cin, cout>>

mainVars == <<mpc, gpc, mcfg, msrv, sigChan, errChan, cancelled, exitCode, exitCause,
              branch, logged, tools, runErr, lastCall>>

vars == <<evalVars, srvVars, cfgVars, mainVars>>

(***************************************************************************)
(* Fixed point and formatting                                              *)
(***************************************************************************)
\* one unit is 1/50: fine enough for C*9/5 of a one-decimal C
Scale == 5 * 10

\* 0.1 in units
Tenth == Scale \div 10

\* float64(n) for an int n
Float(n) == n * Scale

\* a one-decimal literal, given as its count of tenths
Dec(t) == t * Tenth

\* Go's int division truncates toward zero
TruncDiv(a, b) == IF a >= 0 THEN a \div b ELSE -((-a) \div b)

\* x/q rounded to the nearest integer, ties to even (strconv rounding)
RoundHalfEven(x, q) ==
    LET f == x \div q
        r == x % q
    IN  IF 2 * r < q THEN f
        ELSE IF 2 * r > q THEN f + 1
        ELSE IF f % 2 = 0 THEN f ELSE f + 1

\* fmt "%.1f": the printed number as a count of tenths
Fmt1(x) == RoundHalfEven(x, Tenth)

\* fmt "%.0f": the printed number as an integer
Fmt0(x) == RoundHalfEven(x, Scale)

(***************************************************************************)
(* Rendered lines                                                          *)
(***************************************************************************)
\* one rendered line: the section it belongs to, the dimension and verdict
\* it reports (comparison entries only), the fixed text of its format
\* string, and the printed numbers and strings in argument order
Line(sec, dim, verdict, text, n, s) ==
    [sec |-> sec, dim |-> dim, verdict |-> verdict, text |-> text, n |-> n, s |-> s]

(***************************************************************************)
(* interpretLightLevel / interpretMoistureLevel                            *)
(***************************************************************************)
\* interpretLightLevel with the first threshold inclusive
interpretLightLevelInclusive(min, max) ==
    LET avg == TruncDiv(min + max, 2)
    IN  IF avg <= 2000 THEN " (Low light - suitable for shade-tolerant plants)"
        ELSE IF avg < 10000 THEN " (Medium indirect light - typical indoor lighting)"
        ELSE IF avg < 25000 THEN " (Bright indirect light - near windows)"
        ELSE " (Full sun or very bright light - direct sunlight)"

interpretLightLevel(min, max) ==
    LET avg == TruncDiv(min + max, 2)
    IN  IF avg < 2000 THEN " (Low light - suitable for shade-tolerant plants)"
        ELSE IF avg < 10000 THEN " (Medium indirect light - typical indoor lighting)"
        ELSE IF avg < 25000 THEN " (Bright indirect light - near windows)"
        ELSE " (Full sun or very bright light - direct sunlight)"

\* interpretMoistureLevel with the midpoint rounded up
interpretMoistureLevelRounded(min, max) ==
    LET avg == TruncDiv(min + max + 1, 2)
    IN  IF avg < 20 THEN " (Dry soil - water sparingly)"
        ELSE IF avg < 40 THEN " (Slightly moist - let soil dry between waterings)"
        ELSE IF avg < 60 THEN " (Evenly moist - keep soil consistently moist)"
        ELSE " (Very moist - likes wet conditions)"

interpretMoistureLevel(min, max) ==
    LET avg == TruncDiv(min + max, 2)
    IN  IF avg < 20 THEN " (Dry soil - water sparingly)"
        ELSE IF avg < 40 THEN " (Slightly moist - let soil dry between waterings)"
        ELSE IF avg < 60 THEN " (Evenly moist - keep soil consistently moist)"
        ELSE " (Very moist - likes wet conditions)"

(***************************************************************************)
(* formatCareSummary                                                       *)
(***************************************************************************)
\* tempUnit: the degree sign is written "deg"
tempUnit(m) == IF m THEN "degC" ELSE "degF"

\* toFahrenheit with 9/5 taken as an integer quotient
toFahrenheitIntRatio(c) == c * (9 \div 5) + Float(32)

\* minF := details.MinTemp*9/5 + 32 (exact for one-decimal inputs)
toFahrenheit(c) == (c * 9) \div 5 + Float(32)

summaryHeader(d) ==
    << Line("title", "", "", "# %s (%s)", <<>>, <<d.Alias, d.DisplayPID>>),
       Line("category", "", "", "Category: %s", <<>>, <<d.Category>>),
       Line("heading", "", "", "## Care Requirements", <<>>, <<>>) >>

summaryLight(d) ==
    IF d.MaxLightLux > 0
    THEN << Line("light", "", "", "**Light**: %d - %d lux",
                 <<d.MinLightLux, d.MaxLightLux>>,
                 <<interpretLightLevel(d.MinLightLux, d.MaxLightLux)>>) >>
    ELSE << >>

summaryTemperature(d, m) ==
    IF d.MaxTemp > 0
    THEN IF m
         THEN << Line("temperature", "", "", "**Temperature**: %.1f - %.1f%s",
                      <<Fmt1(d.MinTemp), Fmt1(d.MaxTemp)>>, <<tempUnit(m)>>) >>
         ELSE << Line("temperature", "", "", "**Temperature**: %.1f - %.1f%s",
                      <<Fmt1(toFahrenheit(d.MinTemp)), Fmt1(toFahrenheit(d.MaxTemp))>>,
                      <<tempUnit(m)>>) >>
    ELSE << >>

summaryHumidity(d) ==
    IF d.MaxEnvHumid > 0
    THEN << Line("humidity", "", "", "**Humidity**: %d - %d%%",
                 <<d.MinEnvHumid, d.MaxEnvHumid>>, <<>>) >>
    ELSE << >>

summarySoilMoisture(d) ==
    IF d.MaxSoilMoist > 0
    THEN << Line("moisture", "", "", "**Soil Moisture**: %d - %d%%",
                 <<d.MinSoilMoist, d.MaxSoilMoist>>,
                 <<interpretMoistureLevel(d.MinSoilMoist, d.MaxSoilMoist)>>) >>
    ELSE << >>

summarySoilEC(d) ==
    IF d.MaxSoilEC > 0
    THEN << Line("conductivity", "", "", "**Fertilizer (EC)**: %d - %d uS/cm",
                 <<d.MinSoilEC, d.MaxSoilEC>>, <<>>) >>
    ELSE << >>

summaryImage(d) ==
    IF d.ImageURL # ""
    THEN << Line("image", "", "", "[Plant Image](%s)", <<>>, <<d.ImageURL>>) >>
    ELSE << >>

\* formatCareSummary with soil moisture rendered before humidity
formatCareSummaryMoistureFirst(d, m) ==
    summaryHeader(d) \o summaryLight(d) \o summaryTemperature(d, m)
        \o summarySoilMoisture(d) \o summaryHumidity(d) \o summarySoilEC(d)
        \o summaryImage(d)

formatCareSummary(d, m) ==
    summaryHeader(d) \o summaryLight(d) \o summaryTemperature(d, m)
        \o summaryHumidity(d) \o summarySoilMoisture(d) \o summarySoilEC(d)
        \o summaryImage(d)

(***************************************************************************)
(* compareConditions                                                       *)
(***************************************************************************)
\* a value of Go type interface{}: its dynamic type and, for a float64, its
\* value; nil is what indexing a map with a missing key yields
Nil == [kind |-> "nil", val |-> 0]

\* conditions[key]
mapIndex(c, key) == IF key \in DOMAIN c THEN c[key] ELSE Nil

\* x.(float64) in its two-result form: the zero value and false on mismatch
\* assertFloat64 letting any non-nil value pass, as its zero value
assertFloat64Coerce(x) ==
    IF x.kind = "nil" THEN [val |-> 0, exists |-> FALSE]
    ELSE [val |-> x.val, exists |-> TRUE]

assertFloat64(x) ==
    IF x.kind = "float64" THEN [val |-> x.val, exists |-> TRUE]
    ELSE [val |-> 0, exists |-> FALSE]

NoEntries == [issues |-> << >>, ok |-> << >>]

\* checkMoisture testing the maximum before the minimum
checkMoistureHighFirst(d, c) ==
    LET a == assertFloat64(mapIndex(c, "moisture"))
        moisture == a.val
        min == Float(d.MinSoilMoist)
        max == Float(d.MaxSoilMoist)
    IN  IF a.exists /\ d.MaxSoilMoist > 0
        THEN IF moisture > max
             THEN [issues |-> << Line("issue", "moisture", "too high",
                       "**Soil Moisture Too High**: Current %.1f%%, needs %.0f-%.0f%% (%.1f%% above maximum)",
                       <<Fmt1(moisture), Fmt0(min), Fmt0(max), Fmt1(moisture - max)>>, <<>>) >>,
                   ok |-> << >>]
             ELSE IF moisture < min
             THEN [issues |-> << Line("issue", "moisture", "too low",
                       "**Soil Moisture Too Low**: Current %.1f%%, needs %.0f-%.0f%% (%.1f%% below minimum)",
                       <<Fmt1(moisture), Fmt0(min), Fmt0(max), Fmt1(min - moisture)>>, <<>>) >>,
                   ok |-> << >>]
             ELSE [issues |-> << >>,
                   ok |-> << Line("ok", "moisture", "within range",
                       "**Soil Moisture**: %.1f%% (within %.0f-%.0f%% range)",
                       <<Fmt1(moisture), Fmt0(min), Fmt0(max)>>, <<>>) >>]
        ELSE NoEntries

checkMoisture(d, c) ==
    LET a == assertFloat64(mapIndex(c, "moisture"))
        moisture == a.val
        min == Float(d.MinSoilMoist)
        max == Float(d.MaxSoilMoist)
    IN  IF a.exists /\ d.MaxSoilMoist > 0
        THEN IF moisture < min
             THEN [issues |-> << Line("issue", "moisture", "too low",
                       "**Soil Moisture Too Low**: Current %.1f%%, needs %.0f-%.0f%% (%.1f%% below minimum)",
                       <<Fmt1(moisture), Fmt0(min), Fmt0(max), Fmt1(min - moisture)>>, <<>>) >>,
                   ok |-> << >>]
             ELSE IF moisture > max
             THEN [issues |-> << Line("issue", "moisture", "too high",
                       "**Soil Moisture Too High**: Current %.1f%%, needs %.0f-%.0f%% (%.1f%% above maximum)",
                       <<Fmt1(moisture), Fmt0(min), Fmt0(max), Fmt1(moisture - max)>>, <<>>) >>,
                   ok |-> << >>]
             ELSE [issues |-> << >>,
                   ok |-> << Line("ok", "moisture", "within range",
                       "**Soil Moisture**: %.1f%% (within %.0f-%.0f%% range)",
                       <<Fmt1(moisture), Fmt0(min), Fmt0(max)>>, <<>>) >>]
        ELSE NoEntries

\* checkTemperature reading the moisture key, a copy-and-paste slip
checkTemperatureWrongKey(d, c) ==
    LET a == assertFloat64(mapIndex(c, "moisture"))
        temp == a.val
        min == d.MinTemp
        max == d.MaxTemp
    IN  IF a.exists /\ d.MaxTemp > 0
        THEN IF temp < min
             THEN [issues |-> << Line("issue", "temperature", "too low",
                       "**Temperature Too Low**: Current %.1fdegC, needs %.1f-%.1fdegC (%.1fdegC below minimum)",
                       <<Fmt1(temp), Fmt1(min), Fmt1(max), Fmt1(min - temp)>>, <<>>) >>,
                   ok |-> << >>]
             ELSE IF temp > max
             THEN [issues |-> << Line("issue", "temperature", "too high",
                       "**Temperature Too High**: Current %.1fdegC, needs %.1f-%.1fdegC (%.1fdegC above maximum)",
                       <<Fmt1(temp), Fmt1(min), Fmt1(max), Fmt1(temp - max)>>, <<>>) >>,
                   ok |-> << >>]
             ELSE [issues |-> << >>,
                   ok |-> << Line("ok", "temperature", "within range",
                       "**Temperature**: %.1fdegC (within %.1f-%.1fdegC range)",
                       <<Fmt1(temp), Fmt1(min), Fmt1(max)>>, <<>>) >>]
        ELSE NoEntries

checkTemperature(d, c) ==
    LET a == assertFloat64(mapIndex(c, "temperature"))
        temp == a.val
        min == d.MinTemp
        max == d.MaxTemp
    IN  IF a.exists /\ d.MaxTemp > 0
        THEN IF temp < min
             THEN [issues |-> << Line("issue", "temperature", "too low",
                       "**Temperature Too Low**: Current %.1fdegC, needs %.1f-%.1fdegC (%.1fdegC below minimum)",
                       <<Fmt1(temp), Fmt1(min), Fmt1(max), Fmt1(min - temp)>>, <<>>) >>,
                   ok |-> << >>]
             ELSE IF temp > max
             THEN [issues |-> << Line("issue", "temperature", "too high",
                       "**Temperature Too High**: Current %.1fdegC, needs %.1f-%.1fdegC (%.1fdegC above maximum)",
                       <<Fmt1(temp), Fmt1(min), Fmt1(max), Fmt1(temp - max)>>, <<>>) >>,
                   ok |-> << >>]
             ELSE [issues |-> << >>,
                   ok |-> << Line("ok", "temperature", "within range",
                       "**Temperature**: %.1fdegC (within %.1f-%.1fdegC range)",
                       <<Fmt1(temp), Fmt1(min), Fmt1(max)>>, <<>>) >>]
        ELSE NoEntries

\* checkLight evaluating any range whose upper bound is not negative
checkLightNonNegative(d, c) ==
    LET a == assertFloat64(mapIndex(c, "light_lux"))
        light == a.val
        min == Float(d.MinLightLux)
        max == Float(d.MaxLightLux)
    IN  IF a.exists /\ d.MaxLightLux >= 0
        THEN IF light < min
             THEN [issues |-> << Line("issue", "light", "too low",
                       "**Light Too Low**: Current %.0f lux, needs %.0f-%.0f lux (%.0f lux below minimum)",
                       <<Fmt0(light), Fmt0(min), Fmt0(max), Fmt0(min - light)>>, <<>>) >>,
                   ok |-> << >>]
             ELSE IF light > max
             THEN [issues |-> << Line("issue", "light", "too high",
                       "**Light Too High**: Current %.0f lux, needs %.0f-%.0f lux (%.0f lux above maximum)",
                       <<Fmt0(light), Fmt0(min), Fmt0(max), Fmt0(light - max)>>, <<>>) >>,
                   ok |-> << >>]
             ELSE [issues |-> << >>,
                   ok |-> << Line("ok", "light", "within range",
                       "**Light**: %.0f lux (within %.0f-%.0f lux range)",
                       <<Fmt0(light), Fmt0(min), Fmt0(max)>>, <<>>) >>]
        ELSE NoEntries

\* checkLight printing the current value with one decimal place
checkLightOneDecimal(d, c) ==
    LET a == assertFloat64(mapIndex(c, "light_lux"))
        light == a.val
        min == Float(d.MinLightLux)
        max == Float(d.MaxLightLux)
    IN  IF a.exists /\ d.MaxLightLux > 0
        THEN IF light < min
             THEN [issues |-> << Line("issue", "light", "too low",
                       "**Light Too Low**: Current %.0f lux, needs %.0f-%.0f lux (%.0f lux below minimum)",
                       <<Fmt1(light), Fmt0(min), Fmt0(max), Fmt0(min - light)>>, <<>>) >>,
                   ok |-> << >>]
             ELSE IF light > max
             THEN [issues |-> << Line("issue", "light", "too high",
                       "**Light Too High**: Current %.0f lux, needs %.0f-%.0f lux (%.0f lux above maximum)",
                       <<Fmt1(light), Fmt0(min), Fmt0(max), Fmt0(light - max)>>, <<>>) >>,
                   ok |-> << >>]
             ELSE [issues |-> << >>,
                   ok |-> << Line("ok", "light", "within range",
                       "**Light**: %.0f lux (within %.0f-%.0f lux range)",
                       <<Fmt1(light), Fmt0(min), Fmt0(max)>>, <<>>) >>]
        ELSE NoEntries

checkLight(d, c) ==
    LET a == assertFloat64(mapIndex(c, "light_lux"))
        light == a.val
        min == Float(d.MinLightLux)
        max == Float(d.MaxLightLux)
    IN  IF a.exists /\ d.MaxLightLux > 0
        THEN IF light < min
             THEN [issues |-> << Line("issue", "light", "too low",
                       "**Light Too Low**: Current %.0f lux, needs %.0f-%.0f lux (%.0f lux below minimum)",
                       <<Fmt0(light), Fmt0(min), Fmt0(max), Fmt0(min - light)>>, <<>>) >>,
                   ok |-> << >>]
             ELSE IF light > max
             THEN [issues |-> << Line("issue", "light", "too high",
                       "**Light Too High**: Current %.0f lux, needs %.0f-%.0f lux (%.0f lux above maximum)",
                       <<Fmt0(light), Fmt0(min), Fmt0(max), Fmt0(light - max)>>, <<>>) >>,
                   ok |-> << >>]
             ELSE [issues |-> << >>,
                   ok |-> << Line("ok", "light", "within range",
                       "**Light**: %.0f lux (within %.0f-%.0f lux range)",
                       <<Fmt0(light), Fmt0(min), Fmt0(max)>>, <<>>) >>]
        ELSE NoEntries

\* checkHumidity with the lower bound excluded from the range
checkHumidityInclusiveLow(d, c) ==
    LET a == assertFloat64(mapIndex(c, "humidity"))
        humid == a.val
        min == Float(d.MinEnvHumid)
        max == Float(d.MaxEnvHumid)
    IN  IF a.exists /\ d.MaxEnvHumid > 0
        THEN IF humid <= min
             THEN [issues |-> << Line("issue", "humidity", "too low",
                       "**Humidity Too Low**: Current %.1f%%, needs %.0f-%.0f%% (%.1f%% below minimum)",
                       <<Fmt1(humid), Fmt0(min), Fmt0(max), Fmt1(min - humid)>>, <<>>) >>,
                   ok |-> << >>]
             ELSE IF humid > max
             THEN [issues |-> << Line("issue", "humidity", "too high",
                       "**Humidity Too High**: Current %.1f%%, needs %.0f-%.0f%% (%.1f%% above maximum)",
                       <<Fmt1(humid), Fmt0(min), Fmt0(max), Fmt1(humid - max)>>, <<>>) >>,
                   ok |-> << >>]
             ELSE [issues |-> << >>,
                   ok |-> << Line("ok", "humidity", "within range",
                       "**Humidity**: %.1f%% (within %.0f-%.0f%% range)",
                       <<Fmt1(humid), Fmt0(min), Fmt0(max)>>, <<>>) >>]
        ELSE NoEntries

\* checkHumidity with "if" in place of "else if": a reading below the
\* minimum also runs the second test and its else branch
checkHumidityNoElse(d, c) ==
    LET a == assertFloat64(mapIndex(c, "humidity"))
        humid == a.val
        min == Float(d.MinEnvHumid)
        max == Float(d.MaxEnvHumid)
        low == IF humid < min
               THEN << Line("issue", "humidity", "too low",
                       "**Humidity Too Low**: Current %.1f%%, needs %.0f-%.0f%% (%.1f%% below minimum)",
                       <<Fmt1(humid), Fmt0(min), Fmt0(max), Fmt1(min - humid)>>, <<>>) >>
               ELSE << >>
    IN  IF a.exists /\ d.MaxEnvHumid > 0
        THEN IF humid > max
             THEN [issues |-> low \o << Line("issue", "humidity", "too high",
                       "**Humidity Too High**: Current %.1f%%, needs %.0f-%.0f%% (%.1f%% above maximum)",
                       <<Fmt1(humid), Fmt0(min), Fmt0(max), Fmt1(humid - max)>>, <<>>) >>,
                   ok |-> << >>]
             ELSE [issues |-> low,
                   ok |-> << Line("ok", "humidity", "within range",
                       "**Humidity**: %.1f%% (within %.0f-%.0f%% range)",
                       <<Fmt1(humid), Fmt0(min), Fmt0(max)>>, <<>>) >>]
        ELSE NoEntries

checkHumidity(d, c) ==
    LET a == assertFloat64(mapIndex(c, "humidity"))
        humid == a.val
        min == Float(d.MinEnvHumid)
        max == Float(d.MaxEnvHumid)
    IN  IF a.exists /\ d.MaxEnvHumid > 0
        THEN IF humid < min
             THEN [issues |-> << Line("issue", "humidity", "too low",
                       "**Humidity Too Low**: Current %.1f%%, needs %.0f-%.0f%% (%.1f%% below minimum)",
                       <<Fmt1(humid), Fmt0(min), Fmt0(max), Fmt1(min - humid)>>, <<>>) >>,
                   ok |-> << >>]
             ELSE IF humid > max
             THEN [issues |-> << Line("issue", "humidity", "too high",
                       "**Humidity Too High**: Current %.1f%%, needs %.0f-%.0f%% (%.1f%% above maximum)",
                       <<Fmt1(humid), Fmt0(min), Fmt0(max), Fmt1(humid - max)>>, <<>>) >>,
                   ok |-> << >>]
             ELSE [issues |-> << >>,
                   ok |-> << Line("ok", "humidity", "within range",
                       "**Humidity**: %.1f%% (within %.0f-%.0f%% range)",
                       <<Fmt1(humid), Fmt0(min), Fmt0(max)>>, <<>>) >>]
        ELSE NoEntries

\* the issues slice after the four checks, in append order
collectIssues(d, c) ==
    checkMoisture(d, c).issues \o checkTemperature(d, c).issues
        \o checkLight(d, c).issues \o checkHumidity(d, c).issues

\* the ok slice after the four checks, in append order
collectOk(d, c) ==
    checkMoisture(d, c).ok \o checkTemperature(d, c).ok
        \o checkLight(d, c).ok \o checkHumidity(d, c).ok

\* "## Issues Detected" and one line per issue
issuesSection(issues) ==
    IF Len(issues) > 0
    THEN << Line("issuesHeading", "", "", "## Issues Detected", <<>>, <<>>) >> \o issues
    ELSE << >>

\* "## Conditions Within Range" and one line per ok entry
okSection(ok) ==
    IF Len(ok) > 0
    THEN << Line("okHeading", "", "", "## Conditions Within Range", <<>>, <<>>) >> \o ok
    ELSE << >>

noConditionsLine(issues, ok) ==
    IF Len(issues) = 0 /\ Len(ok) = 0
    THEN << Line("noConditions", "", "",
                 "No conditions were provided for comparison.", <<>>, <<>>) >>
    ELSE << >>

\* summaryLine counting every evaluated dimension
summaryLineCountsAll(issues, ok) ==
    IF Len(issues) = 0 /\ Len(ok) > 0
    THEN << Line("summaryAllOk", "", "",
                 "**Summary**: All monitored conditions are within ideal ranges!",
                 <<>>, <<>>) >>
    ELSE IF Len(issues) > 0
    THEN << Line("summaryAttention", "", "",
                 "**Summary**: %d condition(s) need attention.",
                 <<Len(issues) + Len(ok)>>, <<>>) >>
    ELSE << >>

\* summaryLine without the test that an OK entry exists
summaryLineNoOkGuard(issues, ok) ==
    IF Len(issues) = 0
    THEN << Line("summaryAllOk", "", "",
                 "**Summary**: All monitored conditions are within ideal ranges!",
                 <<>>, <<>>) >>
    ELSE IF Len(issues) > 0
    THEN << Line("summaryAttention", "", "",
                 "**Summary**: %d condition(s) need attention.",
                 <<Len(issues)>>, <<>>) >>
    ELSE << >>

summaryLine(issues, ok) ==
    IF Len(issues) = 0 /\ Len(ok) > 0
    THEN << Line("summaryAllOk", "", "",
                 "**Summary**: All monitored conditions are within ideal ranges!",
                 <<>>, <<>>) >>
    ELSE IF Len(issues) > 0
    THEN << Line("summaryAttention", "", "",
                 "**Summary**: %d condition(s) need attention.",
                 <<Len(issues)>>, <<>>) >>
    ELSE << >>

\* compareConditions with the OK section rendered before the issues
compareConditionsOkFirst(d, c) ==
    LET issues == collectIssues(d, c)
        ok == collectOk(d, c)
    IN  << Line("analysisTitle", "", "", "# Condition Analysis for %s", <<>>, <<d.Alias>>) >>
            \o okSection(ok) \o issuesSection(issues)
            \o noConditionsLine(issues, ok) \o summaryLine(issues, ok)

compareConditions(d, c) ==
    LET issues == collectIssues(d, c)
        ok == collectOk(d, c)
    IN  << Line("analysisTitle", "", "", "# Condition Analysis for %s", <<>>, <<d.Alias>>) >>
            \o issuesSection(issues) \o okSection(ok)
            \o noConditionsLine(issues, ok) \o summaryLine(issues, ok)

(***************************************************************************)
(* Inputs                                                                  *)
(***************************************************************************)
\* how far around a threshold or a range bound the inputs are drawn, in
\* steps (1 for the int arguments, 0.1 or 0.5 for the float64 readings)
Spread == 1

LightThresholds == {2000, 10000, 25000}

MoistureThresholds == {20, 40, 60}

\* the integers within Spread of a member of T
Near(T) == UNION { (t - Spread) .. (t + Spread) : t \in T }

LuxArgs == Near(LightThresholds) \cup {-3, 0, 1500, 3000}

MoistureArgs == Near(MoistureThresholds) \cup {-3, 0, 25, 100}

PlantDetails(light, temp, humid, moist, ec, image) ==
    [ Alias |-> "Swiss cheese plant", DisplayPID |-> "Monstera deliciosa",
      Category |-> "Araceae",
      MinLightLux |-> light[1], MaxLightLux |-> light[2],
      MinTemp |-> Dec(temp[1]), MaxTemp |-> Dec(temp[2]),
      MinEnvHumid |-> humid[1], MaxEnvHumid |-> humid[2],
      MinSoilMoist |-> moist[1], MaxSoilMoist |-> moist[2],
      MinSoilEC |-> ec[1], MaxSoilEC |-> ec[2],
      ImageURL |-> image ]

\* ranges given to formatCareSummary: <<min, max>>, temperatures in tenths
SummaryLight == { <<0, 0>>, <<1500, 3000>>, <<1999, 2000>>, <<9999, 10000>>,
                  <<25000, 25000>>, <<-5, -1>> }

SummaryTemp == { <<0, 1000>>, <<180, 270>>, <<185, 273>>, <<-50, 0>>, <<-100, -10>> }

SummaryHumid == { <<0, 0>>, <<60, 80>>, <<0, -1>> }

SummaryMoist == { <<0, 0>>, <<25, 60>>, <<19, 20>>, <<39, 40>>, <<60, 60>>, <<5, -2>> }

SummaryEC == { <<0, 0>>, <<350, 2000>>, <<0, -1>> }

Images == { "", "https://example.org/monstera.jpg" }

SummaryDetails ==
    { PlantDetails(l, t, h, m, e, i) :
        l \in SummaryLight, t \in SummaryTemp, h \in SummaryHumid,
        m \in SummaryMoist, e \in SummaryEC, i \in Images }

\* ranges given to compareConditions: the documented range, an unspecified
\* one, one with the bounds swapped, and a negative upper bound
CompareMoist == { <<25, 60>>, <<0, 0>>, <<60, 25>> }

CompareTemp == { <<180, 270>>, <<0, 0>>, <<270, 180>>, <<-100, -10>> }

CompareLight == { <<1500, 3000>>, <<0, 0>>, <<3000, 1500>> }

CompareHumid == { <<60, 80>>, <<0, 0>>, <<80, 60>> }

CompareDetails ==
    { PlantDetails(l, t, h, m, <<350, 2000>>, "") :
        l \in CompareLight, t \in CompareTemp, h \in CompareHumid, m \in CompareMoist }

Keys == {"moisture", "temperature", "light_lux", "humidity"}

Num(x) == [kind |-> "float64", val |-> x]

\* a JSON string where a number is expected
Str == [kind |-> "string", val |-> 0]

\* marks a key left out of the map
Missing == [kind |-> "missing", val |-> 0]

\* float64 readings at and within Spread steps outside the bounds lo and hi
Around(lo, hi, step) ==
    { lo - k * step : k \in 0 .. Spread } \cup { hi + k * step : k \in 0 .. Spread }

MoistureReadings == Around(Float(25), Float(60), Tenth) \cup { Float(15), Float(45) }

TemperatureReadings == Around(Float(18), Float(27), Tenth) \cup { Float(22) }

LightReadings == Around(Float(1500), Float(3000), Scale \div 2) \cup { Float(2000) }

HumidityReadings == Around(Float(60), Float(80), Tenth) \cup { Float(65) }

Choices(R) == { Num(x) : x \in R } \cup { Str, Missing }

\* the map holding exactly the keys whose choice is not Missing
Reading(m, t, l, h) ==
    LET all == [ k \in Keys |-> CASE k = "moisture" -> m
                                  [] k = "temperature" -> t
                                  [] k = "light_lux" -> l
                                  [] OTHER -> h ]
    IN  [ k \in { x \in Keys : all[x] # Missing } |-> all[k] ]

ConditionsSet ==
    { Reading(m, t, l, h) :
        m \in Choices(MoistureReadings), t \in Choices(TemperatureReadings),
        l \in Choices(LightReadings), h \in Choices(HumidityReadings) }

(***************************************************************************)
(* State machine: one invocation at a time, from its arguments to its      *)
(* returned text; nothing is kept once the invocation has returned         *)
(***************************************************************************)
NoDetails == PlantDetails(<<0, 0>>, <<0, 0>>, <<0, 0>>, <<0, 0>>, <<0, 0>>, "")

NoConditions == [ k \in {} |-> Nil ]

\* the evaluator at rest
EvalQuiet ==
    /\ pc = "idle"
    /\ fn = "none"
    /\ details = NoDetails
    /\ metric = TRUE
    /\ conditions = NoConditions
    /\ argMin = 0
    /\ argMax = 0
    /\ summary = << >>
    /\ analysis = << >>
    /\ tag = ""

\* the goroutines that may run a tool handler at the same time
Workers == {"w1", "w2"}

\* Config (config.go:12-25); LogLevel is the slog level's name
Config(apiKey, clientID, clientSecret, logLevel, cacheEnabled, cacheTTL, defaultLang) ==
    [ APIKey |-> apiKey, ClientID |-> clientID, ClientSecret |-> clientSecret,
      LogLevel |-> logLevel, CacheEnabled |-> cacheEnabled, CacheTTL |-> cacheTTL,
      DefaultLang |-> defaultLang ]

NoConfig == Config("", "", "", "info", FALSE, 0, "")

\* the SDK client: the authentication option it was built with
Client(auth, key, id, secret) == [ auth |-> auth, key |-> key, id |-> id, secret |-> secret ]

NoClient == Client("none", "", "", "")

\* Server (the struct of New): client, logger (its level), config, version
Server(client, config, version) ==
    [ client |-> client, logger |-> [level |-> config.LogLevel],
      config |-> config, version |-> version ]

NoServer == Server(NoClient, NoConfig, "")

\* a value of a tool-call argument: its JSON type and the value; an object
\* is held as a reading map
Arg(kind, s, n, b, m) == [ kind |-> kind, s |-> s, n |-> n, b |-> b, m |-> m ]

NoArgs == [ k \in {} |-> Arg("none", "", 0, FALSE, NoConditions) ]

\* mcp.CallToolRequest: the tool name and the argument bag
Request(tool, args) == [ tool |-> tool, args |-> args ]

NoRequest == Request("", NoArgs)

\* one call on the SDK client: SearchPlants(query, limit) or
\* GetPlantDetails(pid, language)
Call(op, key, limit, lang) == [ op |-> op, key |-> key, limit |-> limit, lang |-> lang ]

NoCall == Call("", "", 0, "")

\* what the SDK call returned: err is the provider's message, "" for nil
Response(err, d, results) == [ err |-> err, details |-> d, results |-> results ]

NoResponse == Response("", NoDetails, << >>)

\* mcp.CallToolResult: IsError, and the text content as the format string
\* of the message, the wrapped error, the rendered lines, or the value that
\* was marshalled to JSON
Result(isError, msg, cause, lines, jsonDetails, jsonResults) ==
    [ isError |-> isError, msg |-> msg, cause |-> cause, lines |-> lines,
      jsonDetails |-> jsonDetails, jsonResults |-> jsonResults, isNil |-> FALSE ]

\* a nil *mcp.CallToolResult
NilResult ==
    [ isError |-> FALSE, msg |-> "", cause |-> "", lines |-> << >>,
      jsonDetails |-> NoDetails, jsonResults |-> << >>, isNil |-> TRUE ]

\* no invocation in flight
ServerQuiet ==
    /\ wpc = [ w \in Workers |-> "idle" ]
    /\ req = [ w \in Workers |-> NoRequest ]
    /\ trace = [ w \in Workers |-> "" ]
    /\ upCall = [ w \in Workers |-> NoCall ]
    /\ resp = [ w \in Workers |-> NoResponse ]
    /\ nCalls = [ w \in Workers |-> 0 ]
    /\ ran = [ w \in Workers |-> "none" ]
    /\ res = [ w \in Workers |-> NilResult ]
    /\ goErr = [ w \in Workers |-> "nil" ]

\* no server constructed
ServerAbsent ==
    /\ srv = NoServer
    /\ alive = FALSE
    /\ failed = 0

NoConfigInput == [ path |-> "", env |-> << >>, file |-> << >>, config |-> NoConfig, version |-> "" ]

NoConfigOutput == [ config |-> NoConfig, err |-> "", server |-> NoServer, isNil |-> TRUE ]

\* neither LoadConfig nor New applied
ConfigQuiet ==
    /\ cpc = "idle"
    /\ cfn = "none"
    /\ cin = NoConfigInput
    /\ cout = NoConfigOutput

\* no tool registered
NoTools == [ t \in {} |-> "" ]

\* no tool call dispatched
NoToolCall == [ tool |-> "", handler |-> "" ]

\* the process not started
MainQuiet ==
    /\ mpc = "start"
    /\ gpc = "none"
    /\ mcfg = NoConfig
    /\ msrv = NoServer
    /\ sigChan = << >>
    /\ errChan = << >>
    /\ cancelled = FALSE
    /\ exitCode = -1
    /\ exitCause = ""
    /\ branch = "none"
    /\ logged = FALSE
    /\ tools = NoTools
    /\ runErr = ""
    /\ lastCall = NoToolCall

Init ==
    /\ EvalQuiet
    /\ ServerAbsent
    /\ ServerQuiet
    /\ ConfigQuiet
    /\ MainQuiet

InterpretLightLevel ==
    /\ pc = "idle"
    /\ \E min \in LuxArgs, max \in LuxArgs :
        /\ argMin' = min
        /\ argMax' = max
        /\ tag' = interpretLightLevel(min, max)
    /\ pc' = "done"
    /\ fn' = "interpretLightLevel"
    /\ UNCHANGED <<details, metric, conditions, summary, analysis>>
    /\ UNCHANGED <<srvVars, cfgVars, mainVars>>

InterpretMoistureLevel ==
    /\ pc = "idle"
    /\ \E min \in MoistureArgs, max \in MoistureArgs :
        /\ argMin' = min
        /\ argMax' = max
        /\ tag' = interpretMoistureLevel(min, max)
    /\ pc' = "done"
    /\ fn' = "interpretMoistureLevel"
    /\ UNCHANGED <<details, metric, conditions, summary, analysis>>
    /\ UNCHANGED <<srvVars, cfgVars, mainVars>>

FormatCareSummary ==
    /\ pc = "idle"
    /\ \E d \in SummaryDetails, m \in BOOLEAN :
        /\ details' = d
        /\ metric' = m
        /\ summary' = formatCareSummary(d, m)
    /\ pc' = "done"
    /\ fn' = "formatCareSummary"
    /\ UNCHANGED <<conditions, argMin, argMax, analysis, tag>>
    /\ UNCHANGED <<srvVars, cfgVars, mainVars>>

CompareConditions ==
    /\ pc = "idle"
    /\ \E d \in CompareDetails, c \in ConditionsSet :
        /\ details' = d
        /\ conditions' = c
        /\ analysis' = compareConditions(d, c)
    /\ pc' = "done"
    /\ fn' = "compareConditions"
    /\ UNCHANGED <<metric, argMin, argMax, summary, tag>>
    /\ UNCHANGED <<srvVars, cfgVars, mainVars>>

\* the invocation returns; its arguments and locals are gone
Return ==
    /\ pc = "done"
    /\ pc' = "idle"
    /\ fn' = "none"
    /\ details' = NoDetails
    /\ metric' = TRUE
    /\ conditions' = NoConditions
    /\ argMin' = 0
    /\ argMax' = 0
    /\ summary' = << >>
    /\ analysis' = << >>
    /\ tag' = ""
    /\ UNCHANGED <<srvVars, cfgVars, mainVars>>

Next ==
    \/ InterpretLightLevel
    \/ InterpretMoistureLevel
    \/ FormatCareSummary
    \/ CompareConditions
    \/ Return

Spec == Init /\ [][Next]_vars

TypeOK ==
    /\ pc \in {"idle", "done"}
    /\ fn \in {"none", "interpretLightLevel", "interpretMoistureLevel",
               "formatCareSummary", "compareConditions"}
    /\ metric \in BOOLEAN
    /\ DOMAIN conditions \subseteq Keys

(***************************************************************************)
(* Properties                                                              *)
(***************************************************************************)
\* the comparable dimensions in evaluation order, and what the inputs say
\* about each, read off the arguments and not off the rendered text
Dims == {"moisture", "temperature", "light", "humidity"}

DimRank(dim) ==
    CASE dim = "moisture" -> 1 [] dim = "temperature" -> 2
      [] dim = "light" -> 3 [] OTHER -> 4

KeyOf(dim) == IF dim = "light" THEN "light_lux" ELSE dim

LoOf(d, dim) ==
    CASE dim = "moisture" -> d.MinSoilMoist * Scale
      [] dim = "temperature" -> d.MinTemp
      [] dim = "light" -> d.MinLightLux * Scale
      [] OTHER -> d.MinEnvHumid * Scale

HiOf(d, dim) ==
    CASE dim = "moisture" -> d.MaxSoilMoist * Scale
      [] dim = "temperature" -> d.MaxTemp
      [] dim = "light" -> d.MaxLightLux * Scale
      [] OTHER -> d.MaxEnvHumid * Scale

Supplied(c, dim) == KeyOf(dim) \in DOMAIN c /\ c[KeyOf(dim)].kind = "float64"

Evaluated(d, c, dim) == Supplied(c, dim) /\ HiOf(d, dim) > 0

ValueOf(c, dim) == c[KeyOf(dim)].val

\* positions of the lines of text a that report dimension dim
At(a, dim) == { i \in 1 .. Len(a) : a[i].dim = dim }

\* positions of the lines of text a that belong to section sec
InSec(a, sec) == { i \in 1 .. Len(a) : a[i].sec = sec }

\* the display precision of a dimension's current value and deviation
Printed(dim, x) == IF dim = "light" THEN Fmt0(x) ELSE Fmt1(x)

Compared == pc = "done" /\ fn = "compareConditions"

Summarised == pc = "done" /\ fn = "formatCareSummary"

\* C1: in compareConditions every evaluated dimension with range [min, max]
\* and reading v gets one verdict line: "too low" with deviation min - v when
\* v < min; otherwise "too high" with deviation v - max when v > max;
\* otherwise min <= v <= max and the line says "within range" and carries no
\* deviation.  The deviation is printed at the dimension's display precision.
C1_Verdicts ==
    Compared =>
        \A dim \in Dims :
            Evaluated(details, conditions, dim) =>
                LET v == ValueOf(conditions, dim)
                    lo == LoOf(details, dim)
                    hi == HiOf(details, dim)
                    at == At(analysis, dim)
                IN  /\ Cardinality(at) = 1
                    /\ \A i \in at :
                        IF v < lo
                        THEN /\ analysis[i].verdict = "too low"
                             /\ Len(analysis[i].n) = 4
                             /\ analysis[i].n[4] = Printed(dim, lo - v)
                        ELSE IF v > hi
                        THEN /\ analysis[i].verdict = "too high"
                             /\ Len(analysis[i].n) = 4
                             /\ analysis[i].n[4] = Printed(dim, v - hi)
                        ELSE /\ lo <= v /\ v <= hi
                             /\ analysis[i].verdict = "within range"
                             /\ Len(analysis[i].n) = 3

\* a comparison with a reading below the minimum, one above the maximum, one
\* equal to the minimum and one equal to the maximum
C1_Witness ==
    /\ Compared
    /\ \A dim \in Dims : Evaluated(details, conditions, dim)
    /\ ValueOf(conditions, "moisture") < LoOf(details, "moisture")
    /\ ValueOf(conditions, "temperature") > HiOf(details, "temperature")
    /\ ValueOf(conditions, "light") = LoOf(details, "light")
    /\ ValueOf(conditions, "humidity") = HiOf(details, "humidity")
    /\ \E i \in At(analysis, "moisture") : analysis[i].verdict = "too low"
    /\ \E i \in At(analysis, "temperature") : analysis[i].verdict = "too high"
    /\ \E i \in At(analysis, "light") : analysis[i].verdict = "within range"
    /\ \E i \in At(analysis, "humidity") : analysis[i].verdict = "within range"

\* the dimensions of the care summary and the upper bound of each
SummaryDims == {"light", "temperature", "humidity", "moisture", "conductivity"}

SummaryHi(d, sec) ==
    CASE sec = "light" -> d.MaxLightLux
      [] sec = "temperature" -> d.MaxTemp
      [] sec = "humidity" -> d.MaxEnvHumid
      [] sec = "moisture" -> d.MaxSoilMoist
      [] OTHER -> d.MaxSoilEC

\* C2: a dimension whose upper bound is 0 or lower has no line in the care
\* summary and no entry, neither issue nor OK, in the comparison, whatever
\* the reading holds for it.
C2_UnspecifiedOmitted ==
    /\ Summarised =>
          \A sec \in SummaryDims :
              SummaryHi(details, sec) <= 0 => InSec(summary, sec) = {}
    /\ Compared =>
          \A dim \in Dims :
              HiOf(details, dim) <= 0 => At(analysis, dim) = {}

\* a comparison whose reading is numeric for all four keys while the range
\* leaves moisture at 0 and has a negative temperature maximum
C2_Witness ==
    /\ Compared
    /\ \A dim \in Dims : Supplied(conditions, dim)
    /\ HiOf(details, "moisture") = 0
    /\ HiOf(details, "temperature") < 0
    /\ HiOf(details, "light") > 0
    /\ At(analysis, "moisture") = {}
    /\ At(analysis, "temperature") = {}
    /\ At(analysis, "light") # {}

\* the reading without the keys that do not hold a float64
NumericOnly(c) ==
    [ k \in { x \in DOMAIN c : c[x].kind = "float64" } |-> c[k] ]

\* C3: compareConditions treats a key whose value is not numeric exactly as
\* a key that is absent: the dimension has no entry and the whole report is
\* the one the reading gives once its non-numeric keys are left out.
C3_NonNumericAsAbsent ==
    Compared =>
        /\ analysis = compareConditions(details, NumericOnly(conditions))
        /\ \A dim \in Dims :
              ~Supplied(conditions, dim) => At(analysis, dim) = {}

\* a comparison where moisture is a string, light is missing, and the two
\* remaining keys are evaluated, against a range that specifies all four
C3_Witness ==
    /\ Compared
    /\ "moisture" \in DOMAIN conditions /\ conditions["moisture"].kind = "string"
    /\ "light_lux" \notin DOMAIN conditions
    /\ \A dim \in Dims : HiOf(details, dim) > 0
    /\ Evaluated(details, conditions, "temperature")
    /\ Evaluated(details, conditions, "humidity")
    /\ At(analysis, "moisture") = {}
    /\ At(analysis, "temperature") # {}

LowLight == " (Low light - suitable for shade-tolerant plants)"

MediumLight == " (Medium indirect light - typical indoor lighting)"

BrightLight == " (Bright indirect light - near windows)"

FullSun == " (Full sun or very bright light - direct sunlight)"

DrySoil == " (Dry soil - water sparingly)"

SlightlyMoist == " (Slightly moist - let soil dry between waterings)"

EvenlyMoist == " (Evenly moist - keep soil consistently moist)"

VeryMoist == " (Very moist - likes wet conditions)"

\* C5: interpretMoistureLevel picks its tag by the truncated midpoint m of
\* its arguments: m < 20 dry, 20 <= m < 40 let dry between waterings,
\* 40 <= m < 60 keep consistently moist, m >= 60 likes wet conditions; the
\* tag is never empty.
C5_MoistureBands ==
    (pc = "done" /\ fn = "interpretMoistureLevel") =>
        LET s == argMin + argMax
        IN  /\ tag # ""
            /\ (tag = DrySoil) <=> (s < 40)
            /\ (tag = SlightlyMoist) <=> (40 <= s /\ s < 80)
            /\ (tag = EvenlyMoist) <=> (80 <= s /\ s < 120)
            /\ (tag = VeryMoist) <=> (s >= 120)

\* arguments 59 and 60: the midpoint 59.5 truncates to 59, consistently moist
C5_Witness ==
    /\ pc = "done" /\ fn = "interpretMoistureLevel"
    /\ argMin = 59 /\ argMax = 60
    /\ tag = EvenlyMoist

\* a Celsius value as its count of tenths (the inputs are one-decimal)
CelsiusTenths(c) == c \div Tenth

\* F = C*9/5 + 32 for C given in tenths, as the nearest count of tenths:
\* in hundredths F is 18*C + 3200, which never ends in 5
FahrenheitTenths(t) == (18 * t + 3200 + 5) \div 10

\* C6: the temperature line of formatCareSummary shows both bounds in
\* Celsius, unchanged, when metric is true; when metric is false it shows
\* both bounds converted by F = C*9/5 + 32, with the Fahrenheit unit: 0 C is
\* 32.0 F, 100 C is 212.0 F, 18.0 - 27.0 C is 64.4 - 80.6 F.
C6_TemperatureUnits ==
    (Summarised /\ details.MaxTemp > 0) =>
        /\ Cardinality(InSec(summary, "temperature")) = 1
        /\ \A i \in InSec(summary, "temperature") :
            LET lo == CelsiusTenths(details.MinTemp)
                hi == CelsiusTenths(details.MaxTemp)
            IN  IF metric
                THEN /\ summary[i].n = <<lo, hi>>
                     /\ summary[i].s = <<"degC">>
                ELSE /\ summary[i].n = <<FahrenheitTenths(lo), FahrenheitTenths(hi)>>
                     /\ summary[i].s = <<"degF">>
                     /\ (lo = 0 /\ hi = 1000) => summary[i].n = <<320, 2120>>
                     /\ (lo = 180 /\ hi = 270) => summary[i].n = <<644, 806>>

\* the imperial summary of the range 18.0 - 27.0 C
C6_Witness ==
    /\ Summarised
    /\ ~metric
    /\ details.MinTemp = Dec(180) /\ details.MaxTemp = Dec(270)
    /\ \E i \in InSec(summary, "temperature") :
          summary[i].n = <<644, 806>> /\ summary[i].s = <<"degF">>

SectionRank(sec) ==
    CASE sec = "title" -> 1 [] sec = "category" -> 2 [] sec = "heading" -> 3
      [] sec = "light" -> 4 [] sec = "temperature" -> 5 [] sec = "humidity" -> 6
      [] sec = "moisture" -> 7 [] sec = "conductivity" -> 8 [] sec = "image" -> 9
      [] OTHER -> 0

\* C7: the care summary opens with the header (title, category), and its
\* sections follow in the order light, temperature, humidity, soil moisture,
\* conductivity, image; each section is there exactly when its own upper
\* bound is positive, whatever the others are, and the image line exactly
\* when the image reference is non-empty.
C7_SectionOrder ==
    Summarised =>
        /\ Len(summary) >= 3
        /\ summary[1].sec = "title" /\ summary[2].sec = "category"
        /\ \A i \in 1 .. Len(summary) : SectionRank(summary[i].sec) > 0
        /\ \A i, j \in 1 .. Len(summary) :
              i < j => SectionRank(summary[i].sec) < SectionRank(summary[j].sec)
        /\ \A sec \in SummaryDims :
              (InSec(summary, sec) # {}) <=> (SummaryHi(details, sec) > 0)
        /\ (InSec(summary, "image") # {}) <=> (details.ImageURL # "")

\* a summary with temperature, soil moisture and image but without light,
\* humidity and conductivity
C7_Witness ==
    /\ Summarised
    /\ InSec(summary, "light") = {}
    /\ InSec(summary, "temperature") # {}
    /\ InSec(summary, "humidity") = {}
    /\ InSec(summary, "moisture") # {}
    /\ InSec(summary, "conductivity") = {}
    /\ InSec(summary, "image") # {}
    /\ Len(summary) = 6

\* what the inputs make of an evaluated dimension
OutOfRange(d, c, dim) ==
    /\ Evaluated(d, c, dim)
    /\ \/ ValueOf(c, dim) < LoOf(d, dim)
       \/ ValueOf(c, dim) > HiOf(d, dim)

InRange(d, c, dim) == Evaluated(d, c, dim) /\ ~OutOfRange(d, c, dim)

\* C8: the report lists every out-of-range dimension in the issues section
\* and every within-range dimension in the OK section, both in the order
\* moisture, temperature, light, humidity, the issues section first; a
\* section without entries, heading included, is not rendered.
C8_Sections ==
    Compared =>
        LET iss == InSec(analysis, "issue")
            oks == InSec(analysis, "ok")
            ih == InSec(analysis, "issuesHeading")
            oh == InSec(analysis, "okHeading")
        IN  /\ \A dim \in Dims :
                /\ OutOfRange(details, conditions, dim)
                      <=> (\E i \in iss : analysis[i].dim = dim)
                /\ InRange(details, conditions, dim)
                      <=> (\E i \in oks : analysis[i].dim = dim)
            /\ \A i \in iss : analysis[i].verdict \in {"too low", "too high"}
            /\ \A i \in oks : analysis[i].verdict = "within range"
            /\ \A i, j \in iss :
                  i < j => DimRank(analysis[i].dim) < DimRank(analysis[j].dim)
            /\ \A i, j \in oks :
                  i < j => DimRank(analysis[i].dim) < DimRank(analysis[j].dim)
            /\ \A i \in iss, j \in oks : i < j
            /\ (ih # {}) <=> (iss # {})
            /\ (oh # {}) <=> (oks # {})
            /\ Cardinality(ih) <= 1 /\ Cardinality(oh) <= 1
            /\ \A h \in ih : /\ \A i \in iss : h < i
                             /\ h + 1 \in iss
            /\ \A h \in oh : /\ \A i \in iss : i < h
                             /\ \A j \in oks : h < j
                             /\ h + 1 \in oks

\* a report with two issues (moisture, light) and two OK entries
\* (temperature, humidity)
C8_Witness ==
    /\ Compared
    /\ OutOfRange(details, conditions, "moisture")
    /\ InRange(details, conditions, "temperature")
    /\ OutOfRange(details, conditions, "light")
    /\ InRange(details, conditions, "humidity")
    /\ Cardinality(InSec(analysis, "issue")) = 2
    /\ Cardinality(InSec(analysis, "ok")) = 2

\* C9: when no dimension is evaluable the report says that no conditions
\* were provided for comparison and has no issues section, no OK section
\* and no summary line.
C9_NothingToCompare ==
    (Compared /\ \A dim \in Dims : ~Evaluated(details, conditions, dim)) =>
        /\ InSec(analysis, "noConditions") # {}
        /\ InSec(analysis, "issuesHeading") = {} /\ InSec(analysis, "issue") = {}
        /\ InSec(analysis, "okHeading") = {} /\ InSec(analysis, "ok") = {}
        /\ InSec(analysis, "summaryAllOk") = {}
        /\ InSec(analysis, "summaryAttention") = {}
        /\ Len(analysis) = 2

\* a reading that is numeric for all four keys against a range that
\* specifies none of the four dimensions
C9_Witness ==
    /\ Compared
    /\ \A dim \in Dims : Supplied(conditions, dim) /\ HiOf(details, dim) <= 0
    /\ InSec(analysis, "noConditions") # {}

\* the dimensions the inputs put out of range, and within range
IssueDims == { dim \in Dims : OutOfRange(details, conditions, dim) }

OkDims == { dim \in Dims : InRange(details, conditions, dim) }

ClosingSecs == {"noConditions", "summaryAllOk", "summaryAttention"}

\* C10: the report ends with exactly one closing line: the "all within
\* ideal ranges" summary iff there is no issue and at least one OK entry;
\* the "N condition(s) need attention" summary iff there is at least one
\* issue, N being the number of issues whatever the number of OK entries;
\* the "no conditions provided" line iff there is neither.
C10_ClosingLine ==
    Compared =>
        LET closing == { i \in 1 .. Len(analysis) : analysis[i].sec \in ClosingSecs }
            last == analysis[Len(analysis)]
        IN  /\ closing = { Len(analysis) }
            /\ (last.sec = "summaryAllOk") <=> (IssueDims = {} /\ OkDims # {})
            /\ (last.sec = "summaryAttention") <=> (IssueDims # {})
            /\ (last.sec = "summaryAttention") => last.n = << Cardinality(IssueDims) >>
            /\ (last.sec = "noConditions") <=> (IssueDims = {} /\ OkDims = {})

\* a report with one issue and three OK entries, closed by the count 1
C10_Witness ==
    /\ Compared
    /\ Cardinality(IssueDims) = 1
    /\ Cardinality(OkDims) = 3
    /\ analysis[Len(analysis)].sec = "summaryAttention"
    /\ analysis[Len(analysis)].n = <<1>>

\* the range and the reading of the documented low-moisture scenario
ScenarioDetails ==
    PlantDetails(<<1500, 3000>>, <<180, 270>>, <<60, 80>>, <<25, 60>>, <<350, 2000>>, "")

LowMoistureReading ==
    Reading(Num(Float(15)), Num(Float(22)), Num(Float(2000)), Num(Float(65)))

\* the reading reduced to the key of one dimension
Only(c, dim) == [ k \in DOMAIN c \cap { KeyOf(dim) } |-> c[k] ]

\* the lines of text a that are comparison entries
Entries(a) == { i \in 1 .. Len(a) : a[i].sec \in {"issue", "ok"} }

\* C11: for the range moisture 25-60, temperature 18-27, light 1500-3000,
\* humidity 60-80 and the reading moisture 15, temperature 22, light 2000,
\* humidity 65 the report has exactly one issue (soil moisture too low, 10
\* below the minimum), exactly three OK entries (temperature, light,
\* humidity) and closes with the count 1; and in every report the entry of a
\* dimension is the one its own reading gives when it is compared alone.
C11_LowMoistureScenario ==
    Compared =>
        /\ (details = ScenarioDetails /\ conditions = LowMoistureReading) =>
              /\ Cardinality(InSec(analysis, "issue")) = 1
              /\ \A i \in InSec(analysis, "issue") :
                    /\ analysis[i].dim = "moisture"
                    /\ analysis[i].verdict = "too low"
                    /\ analysis[i].n = <<150, 25, 60, 100>>
              /\ { analysis[i].dim : i \in InSec(analysis, "ok") }
                    = {"temperature", "light", "humidity"}
              /\ Cardinality(InSec(analysis, "ok")) = 3
              /\ analysis[Len(analysis)].sec = "summaryAttention"
              /\ analysis[Len(analysis)].n = <<1>>
        /\ \A dim \in Dims :
              LET alone == compareConditions(details, Only(conditions, dim))
              IN  { analysis[i] : i \in At(analysis, dim) }
                    = { alone[i] : i \in Entries(alone) }

\* the documented low-moisture scenario has been compared
C11_Witness ==
    /\ Compared
    /\ details = ScenarioDetails
    /\ conditions = LowMoistureReading
    /\ Cardinality(InSec(analysis, "issue")) = 1
    /\ Cardinality(InSec(analysis, "ok")) = 3

\* the int bounds of a dimension, for the three dimensions that have them
IntLo(d, dim) ==
    CASE dim = "moisture" -> d.MinSoilMoist
      [] dim = "light" -> d.MinLightLux
      [] OTHER -> d.MinEnvHumid

IntHi(d, dim) ==
    CASE dim = "moisture" -> d.MaxSoilMoist
      [] dim = "light" -> d.MaxLightLux
      [] OTHER -> d.MaxEnvHumid

\* the deviation the inputs give for an out-of-range dimension
Deviation(d, c, dim) ==
    IF ValueOf(c, dim) < LoOf(d, dim)
    THEN LoOf(d, dim) - ValueOf(c, dim)
    ELSE ValueOf(c, dim) - HiOf(d, dim)

\* an issue line names its dimension and direction and prints four numbers:
\* current value, lower bound, upper bound, deviation
IssueShape(l) ==
    /\ l.dim \in Dims
    /\ l.verdict \in {"too low", "too high"}
    /\ Len(l.n) = 4

\* C13 as claimed: in every issue line the bounds of moisture, humidity and
\* light are integers and their current value has one decimal place;
\* temperature has one decimal place throughout.
C13_AsClaimed ==
    Compared =>
        \A i \in InSec(analysis, "issue") :
            LET l == analysis[i]
                v == ValueOf(conditions, l.dim)
            IN  /\ IssueShape(l)
                /\ IF l.dim = "temperature"
                   THEN l.n = << Fmt1(v), Fmt1(details.MinTemp), Fmt1(details.MaxTemp),
                                 Fmt1(Deviation(details, conditions, l.dim)) >>
                   ELSE /\ l.n[1] = Fmt1(v)
                        /\ l.n[2] = IntLo(details, l.dim)
                        /\ l.n[3] = IntHi(details, l.dim)

\* C13 (amended): every issue line names the dimension and the direction and
\* prints the current value, the range and the deviation; for moisture and
\* humidity the bounds are integers and the current value and the deviation
\* have one decimal place; for light the current value, the bounds and the
\* deviation are all whole numbers; for temperature all four have one
\* decimal place.
C13_IssueLineFormat ==
    Compared =>
        \A i \in InSec(analysis, "issue") :
            LET l == analysis[i]
                v == ValueOf(conditions, l.dim)
                dev == Deviation(details, conditions, l.dim)
            IN  /\ IssueShape(l)
                /\ CASE l.dim = "temperature" ->
                          l.n = << Fmt1(v), Fmt1(details.MinTemp),
                                   Fmt1(details.MaxTemp), Fmt1(dev) >>
                     [] l.dim = "light" ->
                          l.n = << Fmt0(v), IntLo(details, l.dim),
                                   IntHi(details, l.dim), Fmt0(dev) >>
                     [] OTHER ->
                          l.n = << Fmt1(v), IntLo(details, l.dim),
                                   IntHi(details, l.dim), Fmt1(dev) >>

\* a light reading of 1499.5 lux against 1500-3000: the issue line prints
\* current 1500, range 1500-3000, 0 below the minimum
C13_Witness ==
    /\ Compared
    /\ Evaluated(details, conditions, "light")
    /\ ValueOf(conditions, "light") = Float(1500) - Scale \div 2
    /\ \E i \in InSec(analysis, "issue") :
          /\ analysis[i].dim = "light"
          /\ analysis[i].verdict = "too low"
          /\ analysis[i].n = <<1500, 1500, 3000, 0>>

(***************************************************************************)
(* New (construction of the Server)                                        *)
(***************************************************************************)
\* openplantbook.New(opts...): the SDK accepts an API key and a complete
\* OAuth2 pair and rejects the option built from no credentials at all
\* (TestServer_New); what it does with half a pair is the SDK's choice,
\* given here as halfOK
sdkNew(opt, halfOK) ==
    IF opt.auth = "apikey"
    THEN [ client |-> opt, err |-> "" ]
    ELSE IF opt.id # "" /\ opt.secret # ""
    THEN [ client |-> opt, err |-> "" ]
    ELSE IF (opt.id # "" \/ opt.secret # "") /\ halfOK
    THEN [ client |-> opt, err |-> "" ]
    ELSE [ client |-> NoClient, err |-> "authentication required" ]

\* New without the API-key branch: always OAuth2
NewOAuth2Only(config, version, halfOK) ==
    LET opts == Client("oauth2", "", config.ClientID, config.ClientSecret)
        c == sdkNew(opts, halfOK)
    IN  IF c.err # ""
        THEN [ config |-> config, err |-> "create openplantbook client: %w",
               server |-> NoServer, isNil |-> TRUE, opts |-> <<"WithOAuth2">> ]
        ELSE [ config |-> config, err |-> "",
               server |-> Server(c.client, config, version), isNil |-> FALSE,
               opts |-> <<"WithOAuth2">> ]

\* New that drops the error of openplantbook.New
NewIgnoresClientError(config, version, halfOK) ==
    LET opts == IF config.APIKey # ""
                THEN Client("apikey", config.APIKey, "", "")
                ELSE Client("oauth2", "", config.ClientID, config.ClientSecret)
    IN  [ config |-> config, err |-> "",
          server |-> Server(sdkNew(opts, halfOK).client, config, version),
          isNil |-> FALSE,
          opts |-> IF config.APIKey # "" THEN <<"WithAPIKey">> ELSE <<"WithOAuth2">> ]

\* New; opts are the options handed to openplantbook.New, in order
New(config, version, halfOK) ==
    LET opts == IF config.APIKey # ""
                THEN Client("apikey", config.APIKey, "", "")
                ELSE Client("oauth2", "", config.ClientID, config.ClientSecret)
        names == IF config.APIKey # "" THEN <<"WithAPIKey">> ELSE <<"WithOAuth2">>
        c == sdkNew(opts, halfOK)
    IN  IF c.err # ""
        THEN [ config |-> config, err |-> "create openplantbook client: %w",
               server |-> NoServer, isNil |-> TRUE, opts |-> names ]
        ELSE [ config |-> config, err |-> "",
               server |-> Server(c.client, config, version), isNil |-> FALSE,
               opts |-> names ]

(***************************************************************************)
(* Tool handlers                                                           *)
(***************************************************************************)
\* request.RequireString(key): an error unless the key holds a string
requireString(request, key) ==
    IF key \in DOMAIN request.args /\ request.args[key].kind = "string"
    THEN [ val |-> request.args[key].s, err |-> FALSE ]
    ELSE [ val |-> "", err |-> TRUE ]

\* request.GetString(key, default)
getString(request, key, default) ==
    IF key \in DOMAIN request.args /\ request.args[key].kind = "string"
    THEN request.args[key].s ELSE default

\* request.GetInt(key, default): a JSON number is converted
getInt(request, key, default) ==
    IF key \in DOMAIN request.args /\ request.args[key].kind = "number"
    THEN request.args[key].n ELSE default

\* request.GetBool(key, default)
getBool(request, key, default) ==
    IF key \in DOMAIN request.args /\ request.args[key].kind = "bool"
    THEN request.args[key].b ELSE default

\* request.GetArguments()["current_conditions"].(map[string]interface{})
assertObject(request, key) ==
    IF key \in DOMAIN request.args /\ request.args[key].kind = "object"
    THEN [ val |-> request.args[key].m, ok |-> TRUE ]
    ELSE [ val |-> NoConditions, ok |-> FALSE ]

\* mcp.NewToolResultError(text): text is a fixed message, or wraps cause
newToolResultError(msg, cause) == Result(TRUE, msg, cause, << >>, NoDetails, << >>)

\* mcp.NewToolResultText of rendered lines
newToolResultText(lines) == Result(FALSE, "", "", lines, NoDetails, << >>)

\* json.MarshalIndent of the SDK's plain structs: never an error; the text
\* is held as the value it encodes
marshalIndent(d, results) ==
    [ data |-> Result(FALSE, "", "", << >>, d, results), err |-> FALSE ]

\* a handler up to its SDK call: either it has returned (done) with result
\* and a nil error, or it makes the call
Returned(result) == [ done |-> TRUE, result |-> result, err |-> "nil", call |-> NoCall ]

Calls(call) == [ done |-> FALSE, result |-> NilResult, err |-> "nil", call |-> call ]

\* a handler from the return of its SDK call on: what it returns, the
\* renderer it ran, and whether it brought the process down
Outcome(result, rendered) ==
    [ result |-> result, err |-> "nil", ran |-> rendered, fatal |-> FALSE ]

\* handleSearchPlantsCall that leaves the limit to the provider's default
handleSearchPlantsCallNoLimit(s, request, traceID) ==
    IF requireString(request, "query").err
    THEN Returned(newToolResultError(
             "query parameter is required and must be a string", ""))
    ELSE Calls(Call("SearchPlants", requireString(request, "query").val, 0, ""))

handleSearchPlantsCall(s, request, traceID) ==
    LET query == requireString(request, "query")
    IN  IF query.err
        THEN Returned(newToolResultError(
                 "query parameter is required and must be a string", ""))
        ELSE Calls(Call("SearchPlants", query.val, getInt(request, "limit", 10), ""))

\* handleSearchPlantsReturn handing the provider's error back as a Go error
handleSearchPlantsReturnGoError(s, request, traceID, r) ==
    IF r.err # ""
    THEN [ result |-> NilResult, err |-> r.err, ran |-> "none", fatal |-> FALSE ]
    ELSE Outcome(marshalIndent(NoDetails, r.results).data, "none")

handleSearchPlantsReturn(s, request, traceID, r) ==
    IF r.err # ""
    THEN Outcome(newToolResultError("search failed: %v", r.err), "none")
    ELSE LET j == marshalIndent(NoDetails, r.results)
         IN  IF j.err
             THEN Outcome(newToolResultError("failed to format results", ""), "none")
             ELSE Outcome(j.data, "none")

handleGetPlantCareCall(s, request, traceID) ==
    LET pid == requireString(request, "pid")
    IN  IF pid.err
        THEN Returned(newToolResultError(
                 "pid parameter is required and must be a string", ""))
        ELSE Calls(Call("GetPlantDetails", pid.val, 0,
                        getString(request, "language", s.config.DefaultLang)))

\* handleGetPlantCareReturn with an error text that leaves the cause out
handleGetPlantCareReturnDropsCause(s, request, traceID, r) ==
    IF r.err # ""
    THEN Outcome(newToolResultError("failed to get plant details: %v", ""), "none")
    ELSE Outcome(marshalIndent(r.details, << >>).data, "none")

handleGetPlantCareReturn(s, request, traceID, r) ==
    IF r.err # ""
    THEN Outcome(newToolResultError("failed to get plant details: %v", r.err), "none")
    ELSE LET j == marshalIndent(r.details, << >>)
         IN  IF j.err
             THEN Outcome(newToolResultError("failed to format details", ""), "none")
             ELSE Outcome(j.data, "none")

\* handleGetCareSummaryCall that takes the language from the request
handleGetCareSummaryCallAnyLanguage(s, request, traceID) ==
    IF requireString(request, "pid").err
    THEN Returned(newToolResultError(
             "pid parameter is required and must be a string", ""))
    ELSE Calls(Call("GetPlantDetails", requireString(request, "pid").val, 0,
                    getString(request, "language", s.config.DefaultLang)))

handleGetCareSummaryCall(s, request, traceID) ==
    LET pid == requireString(request, "pid")
    IN  IF pid.err
        THEN Returned(newToolResultError(
                 "pid parameter is required and must be a string", ""))
        ELSE Calls(Call("GetPlantDetails", pid.val, 0, s.config.DefaultLang))

\* handleGetCareSummaryReturn that prints the trace id under the summary
handleGetCareSummaryReturnTraced(s, request, traceID, r) ==
    IF r.err # ""
    THEN Outcome(newToolResultError("failed to get plant details: %v", r.err), "none")
    ELSE Outcome(newToolResultText(
                     formatCareSummary(r.details, getBool(request, "metric", TRUE))
                       \o << Line("trace", "", "", "trace: %s", << >>, <<traceID>>) >>),
                 "formatCareSummary")

handleGetCareSummaryReturn(s, request, traceID, r) ==
    LET metricArg == getBool(request, "metric", TRUE)
    IN  IF r.err # ""
        THEN Outcome(newToolResultError("failed to get plant details: %v", r.err), "none")
        ELSE Outcome(newToolResultText(formatCareSummary(r.details, metricArg)),
                     "formatCareSummary")

\* handleCompareConditionsCall without the check of the type assertion
handleCompareConditionsCallUnchecked(s, request, traceID) ==
    IF requireString(request, "pid").err
    THEN Returned(newToolResultError(
             "pid parameter is required and must be a string", ""))
    ELSE Calls(Call("GetPlantDetails", requireString(request, "pid").val, 0,
                    s.config.DefaultLang))

handleCompareConditionsCall(s, request, traceID) ==
    LET pid == requireString(request, "pid")
        cond == assertObject(request, "current_conditions")
    IN  IF pid.err
        THEN Returned(newToolResultError(
                 "pid parameter is required and must be a string", ""))
        ELSE IF ~cond.ok
        THEN Returned(newToolResultError(
                 "current_conditions parameter is required and must be an object", ""))
        ELSE Calls(Call("GetPlantDetails", pid.val, 0, s.config.DefaultLang))

\* handleCompareConditionsReturn that exits the process on a failed lookup
handleCompareConditionsReturnFatal(s, request, traceID, r) ==
    IF r.err # ""
    THEN [ result |-> newToolResultError("failed to get plant details: %v", r.err),
           err |-> "nil", ran |-> "none", fatal |-> TRUE ]
    ELSE Outcome(newToolResultText(
                     compareConditions(r.details,
                                       assertObject(request, "current_conditions").val)),
                 "compareConditions")

handleCompareConditionsReturn(s, request, traceID, r) ==
    LET cond == assertObject(request, "current_conditions")
    IN  IF r.err # ""
        THEN Outcome(newToolResultError("failed to get plant details: %v", r.err), "none")
        ELSE Outcome(newToolResultText(compareConditions(r.details, cond.val)),
                     "compareConditions")

(***************************************************************************)
(* The server: tool invocations, possibly overlapping                      *)
(***************************************************************************)
\* how many failed invocations are told apart (more count as MaxFailed)
MaxFailed == 2

StrArg(x) == Arg("string", x, 0, FALSE, NoConditions)

NumArg(x) == Arg("number", "", x, FALSE, NoConditions)

BoolArg(x) == Arg("bool", "", 0, x, NoConditions)

ObjArg(x) == Arg("object", "", 0, FALSE, x)

\* marks an argument left out of the bag
Absent == Arg("absent", "", 0, FALSE, NoConditions)

\* the argument bag holding exactly the keys of f that are not Absent
Bag(f) == [ k \in { x \in DOMAIN f : f[x].kind # "absent" } |-> f[k] ]

IdealReading ==
    Reading(Num(Float(45)), Num(Float(22)), Num(Float(2000)), Num(Float(65)))

PidArgs == { Absent, StrArg("monstera deliciosa"), NumArg(7) }

SearchRequests ==
    { Request("search_plants", Bag([query |-> q, limit |-> l])) :
        q \in { Absent, StrArg("monstera"), NumArg(42) },
        l \in { Absent, NumArg(3), NumArg(1) } }

CareRequests ==
    { Request("get_plant_care", Bag([pid |-> p, language |-> l])) :
        p \in PidArgs, l \in { Absent, StrArg("de") } }

SummaryRequests ==
    { Request("get_care_summary", Bag([pid |-> p, metric |-> m, language |-> l])) :
        p \in PidArgs, m \in { Absent, BoolArg(TRUE), BoolArg(FALSE) },
        l \in { Absent, StrArg("de") } }

CompareRequests ==
    { Request("compare_conditions",
              Bag([pid |-> p, current_conditions |-> c, language |-> l])) :
        p \in PidArgs,
        c \in { Absent, StrArg("wet"), ObjArg(NoConditions),
                ObjArg(LowMoistureReading), ObjArg(IdealReading) },
        l \in { Absent, StrArg("de") } }

\* xid.New().String()
TraceIDs == {"t1", "t2"}

\* a second plant: no light or humidity range, an image
OtherDetails ==
    PlantDetails(<<0, 0>>, <<100, 300>>, <<0, 0>>, <<15, 60>>, <<0, 0>>,
                 "https://example.org/monstera.jpg")

ProviderErrors == {"plant not found", "service unavailable"}

\* one entry of a search result
SearchResult(pid, name) == [ PID |-> pid, DisplayPID |-> name ]

\* the plants the provider finds for a query, best match first
Matches ==
    << SearchResult("monstera deliciosa", "Monstera deliciosa"),
       SearchResult("monstera adansonii", "Monstera adansonii") >>

\* what the provider may answer to a call; it applies the limit of a search
Responses(call) ==
    IF call.op = "SearchPlants"
    THEN { Response(e, NoDetails, << >>) : e \in ProviderErrors }
           \cup { Response("", NoDetails, << >>),
                  Response("", NoDetails,
                           SubSeq(Matches, 1,
                                  IF call.limit < Len(Matches)
                                  THEN call.limit ELSE Len(Matches))) }
    ELSE { Response(e, NoDetails, << >>) : e \in ProviderErrors }
           \cup { Response("", d, << >>) : d \in { ScenarioDetails, OtherDetails } }

\* the configurations of the running server (setupTestServer)
ServerConfigs ==
    { Config("test-key", "", "", "debug", FALSE, 0, lang) : lang \in {"en", "de"} }

InitServer ==
    /\ EvalQuiet
    /\ ConfigQuiet
    /\ ServerQuiet
    /\ MainQuiet
    /\ \E c \in ServerConfigs : srv = New(c, "test-version", FALSE).server
    /\ alive = TRUE
    /\ failed = 0

Bump(n) == IF n < MaxFailed THEN n + 1 ELSE n

\* the part of a handler that runs once its SDK call has returned
handlerReturn(s, request, traceID, r) ==
    CASE request.tool = "search_plants" -> handleSearchPlantsReturn(s, request, traceID, r)
      [] request.tool = "get_plant_care" -> handleGetPlantCareReturn(s, request, traceID, r)
      [] request.tool = "get_care_summary" -> handleGetCareSummaryReturn(s, request, traceID, r)
      [] OTHER -> handleCompareConditionsReturn(s, request, traceID, r)

\* worker w has run the first part of its handler on request r, with
\* outcome o: an error result returned at once, or the SDK call issued
Invoke(w, r, t, o) ==
    /\ req' = [req EXCEPT ![w] = r]
    /\ trace' = [trace EXCEPT ![w] = t]
    /\ IF o.done
       THEN /\ wpc' = [wpc EXCEPT ![w] = "done"]
            /\ res' = [res EXCEPT ![w] = o.result]
            /\ goErr' = [goErr EXCEPT ![w] = o.err]
            /\ failed' = IF o.result.isError THEN Bump(failed) ELSE failed
            /\ UNCHANGED upCall
       ELSE /\ wpc' = [wpc EXCEPT ![w] = "calling"]
            /\ upCall' = [upCall EXCEPT ![w] = o.call]
            /\ UNCHANGED <<res, goErr, failed>>
    /\ UNCHANGED <<srv, alive, resp, nCalls, ran>>
    /\ UNCHANGED <<evalVars, cfgVars, mainVars>>

HandleSearchPlants(w) ==
    /\ alive
    /\ wpc[w] = "idle"
    /\ \E r \in SearchRequests, t \in TraceIDs :
          Invoke(w, r, t, handleSearchPlantsCall(srv, r, t))

HandleGetPlantCare(w) ==
    /\ alive
    /\ wpc[w] = "idle"
    /\ \E r \in CareRequests, t \in TraceIDs :
          Invoke(w, r, t, handleGetPlantCareCall(srv, r, t))

HandleGetCareSummary(w) ==
    /\ alive
    /\ wpc[w] = "idle"
    /\ \E r \in SummaryRequests, t \in TraceIDs :
          Invoke(w, r, t, handleGetCareSummaryCall(srv, r, t))

HandleCompareConditions(w) ==
    /\ alive
    /\ wpc[w] = "idle"
    /\ \E r \in CompareRequests, t \in TraceIDs :
          Invoke(w, r, t, handleCompareConditionsCall(srv, r, t))

\* UpstreamReturns whose handler stores the request's language in the config
UpstreamReturnsStoresLanguage(w) ==
    /\ alive
    /\ wpc[w] = "calling"
    /\ \E r \in Responses(upCall[w]) :
        LET o == handlerReturn(srv, req[w], trace[w], r)
        IN  /\ resp' = [resp EXCEPT ![w] = r]
            /\ nCalls' = [nCalls EXCEPT ![w] = nCalls[w] + 1]
            /\ ran' = [ran EXCEPT ![w] = o.ran]
            /\ res' = [res EXCEPT ![w] = o.result]
            /\ goErr' = [goErr EXCEPT ![w] = o.err]
            /\ failed' = IF o.result.isError THEN Bump(failed) ELSE failed
            /\ alive' = ~o.fatal
    /\ srv' = [srv EXCEPT !.config.DefaultLang = getString(req[w], "language", @)]
    /\ wpc' = [wpc EXCEPT ![w] = "done"]
    /\ UNCHANGED <<req, trace, upCall>>
    /\ UNCHANGED <<evalVars, cfgVars, mainVars>>

\* UpstreamReturns keeping the response in a field shared by all invocations
UpstreamReturnsShared(w) ==
    /\ alive
    /\ wpc[w] = "calling"
    /\ \E r \in Responses(upCall[w]) :
        LET o == handlerReturn(srv, req[w], trace[w], r)
        IN  /\ resp' = [ v \in Workers |-> r ]
            /\ nCalls' = [nCalls EXCEPT ![w] = nCalls[w] + 1]
            /\ ran' = [ran EXCEPT ![w] = o.ran]
            /\ res' = [res EXCEPT ![w] = o.result]
            /\ goErr' = [goErr EXCEPT ![w] = o.err]
            /\ failed' = IF o.result.isError THEN Bump(failed) ELSE failed
            /\ alive' = ~o.fatal
    /\ wpc' = [wpc EXCEPT ![w] = "done"]
    /\ UNCHANGED <<srv, req, trace, upCall>>
    /\ UNCHANGED <<evalVars, cfgVars, mainVars>>

\* the SDK call of worker w returns and the handler runs to its end
UpstreamReturns(w) ==
    /\ alive
    /\ wpc[w] = "calling"
    /\ \E r \in Responses(upCall[w]) :
        LET o == handlerReturn(srv, req[w], trace[w], r)
        IN  /\ resp' = [resp EXCEPT ![w] = r]
            /\ nCalls' = [nCalls EXCEPT ![w] = nCalls[w] + 1]
            /\ ran' = [ran EXCEPT ![w] = o.ran]
            /\ res' = [res EXCEPT ![w] = o.result]
            /\ goErr' = [goErr EXCEPT ![w] = o.err]
            /\ failed' = IF o.result.isError THEN Bump(failed) ELSE failed
            /\ alive' = ~o.fatal
    /\ wpc' = [wpc EXCEPT ![w] = "done"]
    /\ UNCHANGED <<srv, req, trace, upCall>>
    /\ UNCHANGED <<evalVars, cfgVars, mainVars>>

\* the result of worker w is handed to the transport; its locals are gone
Respond(w) ==
    /\ alive
    /\ wpc[w] = "done"
    /\ wpc' = [wpc EXCEPT ![w] = "idle"]
    /\ req' = [req EXCEPT ![w] = NoRequest]
    /\ trace' = [trace EXCEPT ![w] = ""]
    /\ upCall' = [upCall EXCEPT ![w] = NoCall]
    /\ resp' = [resp EXCEPT ![w] = NoResponse]
    /\ nCalls' = [nCalls EXCEPT ![w] = 0]
    /\ ran' = [ran EXCEPT ![w] = "none"]
    /\ res' = [res EXCEPT ![w] = NilResult]
    /\ goErr' = [goErr EXCEPT ![w] = "nil"]
    /\ UNCHANGED <<srv, alive, failed>>
    /\ UNCHANGED <<evalVars, cfgVars, mainVars>>

NextServer ==
    \E w \in Workers :
        \/ HandleSearchPlants(w)
        \/ HandleGetPlantCare(w)
        \/ HandleGetCareSummary(w)
        \/ HandleCompareConditions(w)
        \/ UpstreamReturns(w)
        \/ Respond(w)

SpecServer == InitServer /\ [][NextServer]_vars

ServerTypeOK ==
    /\ alive \in BOOLEAN
    /\ failed \in 0 .. MaxFailed
    /\ \A w \in Workers :
          /\ wpc[w] \in {"idle", "calling", "done"}
          /\ nCalls[w] \in 0 .. 1
          /\ ran[w] \in {"none", "formatCareSummary", "compareConditions"}

(***************************************************************************)
(* LoadConfig and the construction of the server                           *)
(***************************************************************************)
\* the settings a source (environment or file) holds; "" is unset
Settings(apiKey, clientID, clientSecret, logLevel, lang) ==
    [ api_key |-> apiKey, client_id |-> clientID, client_secret |-> clientSecret,
      log_level |-> logLevel, default_language |-> lang ]

NoSettings == Settings("", "", "", "", "")

\* v.SetDefault(...)
Defaults == Settings("", "", "", "info", "en")

\* the config file as v.ReadInConfig finds it: read ("ok"), not found
\* (viper.ConfigFileNotFoundError) or failing otherwise ("error")
File(status, settings) == [ status |-> status, settings |-> settings ]

\* v.GetString(key): environment, then config file, then default
viperGet(env, loaded, key) ==
    IF env[key] # "" THEN env[key]
    ELSE IF loaded[key] # "" THEN loaded[key]
    ELSE Defaults[key]

\* the switch on v.GetString("log_level")
parseLogLevel(l) == IF l \in {"debug", "info", "warn", "error"} THEN l ELSE "info"

\* LoadConfig without the check for two authentication methods
LoadConfigNoMultipleCheck(configPath, env, file) ==
    LET loaded == IF file.status = "ok" THEN file.settings ELSE NoSettings
        config == Config(viperGet(env, loaded, "api_key"),
                         viperGet(env, loaded, "client_id"),
                         viperGet(env, loaded, "client_secret"),
                         parseLogLevel(viperGet(env, loaded, "log_level")),
                         TRUE, 24,
                         viperGet(env, loaded, "default_language"))
    IN  IF configPath # "" /\ file.status = "error"
        THEN [ config |-> NoConfig, err |-> "read config file: %w",
               server |-> NoServer, isNil |-> TRUE ]
        ELSE IF config.APIKey = "" /\ ~(config.ClientID # "" /\ config.ClientSecret # "")
        THEN [ config |-> NoConfig,
               err |-> "authentication required: provide either api_key OR (client_id and client_secret)",
               server |-> NoServer, isNil |-> TRUE ]
        ELSE [ config |-> config, err |-> "", server |-> NoServer, isNil |-> FALSE ]

LoadConfig(configPath, env, file) ==
    LET loaded == IF file.status = "ok" THEN file.settings ELSE NoSettings
        config == Config(viperGet(env, loaded, "api_key"),
                         viperGet(env, loaded, "client_id"),
                         viperGet(env, loaded, "client_secret"),
                         parseLogLevel(viperGet(env, loaded, "log_level")),
                         TRUE, 24,
                         viperGet(env, loaded, "default_language"))
        hasAPIKey == config.APIKey # ""
        hasOAuth2 == config.ClientID # "" /\ config.ClientSecret # ""
    IN  IF configPath # "" /\ file.status = "error"
        THEN [ config |-> NoConfig, err |-> "read config file: %w",
               server |-> NoServer, isNil |-> TRUE ]
        ELSE IF ~hasAPIKey /\ ~hasOAuth2
        THEN [ config |-> NoConfig,
               err |-> "authentication required: provide either api_key OR (client_id and client_secret)",
               server |-> NoServer, isNil |-> TRUE ]
        ELSE IF hasAPIKey /\ hasOAuth2
        THEN [ config |-> NoConfig,
               err |-> "multiple authentication methods provided: use either api_key OR OAuth2, not both",
               server |-> NoServer, isNil |-> TRUE ]
        ELSE [ config |-> config, err |-> "", server |-> NoServer, isNil |-> FALSE ]

EnvSettings ==
    { Settings(k, i, c, "", l) :
        k \in {"", "env-key"}, i \in {"", "env-id"}, c \in {"", "env-secret"},
        l \in {"", "de"} }

FileSettings ==
    { Settings(k, i, c, l, "") :
        k \in {"", "file-key"}, i \in {"", "file-id"}, c \in {"", "file-secret"},
        l \in {"", "debug", "verbose"} }

Files ==
    { File("ok", f) : f \in FileSettings }
      \cup { File("notfound", NoSettings), File("error", NoSettings) }

ConfigPaths == {"", "/etc/openplantbook.json"}

\* configs built by hand, as the tests of New build them
\* cache settings of a config: enabled and the TTL in hours
CacheSettings == { <<FALSE, 0>>, <<TRUE, 24>>, <<TRUE, 1>> }

HandConfigs ==
    { Config(k, i, c, "debug", h[1], h[2], "en") :
        k \in {"", "test-key"}, i \in {"", "test-id"}, c \in {"", "test-secret"},
        h \in CacheSettings }

\* LoadConfig(configPath) in some environment
RunLoadConfig ==
    /\ cpc = "idle"
    /\ \E path \in ConfigPaths, env \in EnvSettings, file \in Files :
        /\ cin' = [ path |-> path, env |-> env, file |-> file,
                    config |-> NoConfig, version |-> "" ]
        /\ cout' = LoadConfig(path, env, file)
    /\ cfn' = "LoadConfig"
    /\ cpc' = "done"
    /\ UNCHANGED <<evalVars, srvVars, mainVars>>

\* New(config, version)
RunNew ==
    /\ cpc = "idle"
    /\ \E config \in HandConfigs, halfOK \in BOOLEAN :
        /\ cin' = [ path |-> "", env |-> NoSettings, file |-> File("notfound", NoSettings),
                    config |-> config, version |-> "test-version" ]
        /\ cout' = New(config, "test-version", halfOK)
    /\ cfn' = "New"
    /\ cpc' = "done"
    /\ UNCHANGED <<evalVars, srvVars, mainVars>>

ConfigReturn ==
    /\ cpc = "done"
    /\ cpc' = "idle"
    /\ cfn' = "none"
    /\ cin' = NoConfigInput
    /\ cout' = NoConfigOutput
    /\ UNCHANGED <<evalVars, srvVars, mainVars>>

NextConfig == RunLoadConfig \/ RunNew \/ ConfigReturn

SpecConfig == Init /\ [][NextConfig]_vars

(***************************************************************************)
(* Properties of LoadConfig and New                                        *)
(***************************************************************************)
\* the value of a setting after the sources of the run have been merged
Effective(key) ==
    IF cin.env[key] # "" THEN cin.env[key]
    ELSE IF cin.file.status = "ok" THEN cin.file.settings[key]
    ELSE ""

KeySet == Effective("api_key") # ""

PairSet == Effective("client_id") # "" /\ Effective("client_secret") # ""

\* LoadConfig has read its sources and reached the validation
Validated ==
    cpc = "done" /\ cfn = "LoadConfig" /\ cout.err # "read config file: %w"

\* C19: LoadConfig, once its sources are read, accepts a configuration only
\* when exactly one authentication method is provided: neither an API key
\* nor a complete OAuth2 pair gives the 'authentication required' error,
\* both give the 'multiple authentication methods provided' error, and a
\* returned config has exactly one method.
C19_ExactlyOneMethod ==
    Validated =>
        /\ (~KeySet /\ ~PairSet) =>
              /\ cout.isNil
              /\ cout.err = "authentication required: provide either api_key OR (client_id and client_secret)"
        /\ (KeySet /\ PairSet) =>
              /\ cout.isNil
              /\ cout.err = "multiple authentication methods provided: use either api_key OR OAuth2, not both"
        /\ (KeySet # PairSet) => (~cout.isNil /\ cout.err = "")
        /\ ~cout.isNil =>
              (cout.config.APIKey # "")
                 # (cout.config.ClientID # "" /\ cout.config.ClientSecret # "")

C19_Witness ==
    /\ Validated
    /\ KeySet /\ PairSet
    /\ cin.env.api_key # "" /\ cin.env.client_id = ""
    /\ cout.isNil

\* C21: New with a config that carries no authentication at all (empty API
\* key, client id and client secret) returns an error and no Server.
C21_NoAuthentication ==
    (/\ cpc = "done" /\ cfn = "New"
     /\ cin.config.APIKey = ""
     /\ cin.config.ClientID = "" /\ cin.config.ClientSecret = "") =>
        /\ cout.isNil
        /\ cout.server = NoServer
        /\ cout.err = "create openplantbook client: %w"

C21_Witness ==
    /\ cpc = "done" /\ cfn = "New"
    /\ cin.config = Config("", "", "", "debug", FALSE, 0, "en")
    /\ cout.err # ""

HasString(r, k) == k \in DOMAIN r.args /\ r.args[k].kind = "string"

HasObject(r, k) == k \in DOMAIN r.args /\ r.args[k].kind = "object"

\* the request carries every argument its tool requires
ValidRequest(r) ==
    CASE r.tool = "search_plants" -> HasString(r, "query")
      [] r.tool = "compare_conditions" ->
            HasString(r, "pid") /\ HasObject(r, "current_conditions")
      [] OTHER -> HasString(r, "pid")

\* worker w has returned its result
Done(w) == wpc[w] = "done"

\* C14: a tool call that lacks a required argument (query; pid; an
\* object-valued current_conditions) returns a result flagged as error with
\* a nil Go error, and no call to the provider is made for it.
C14_MissingArgument ==
    \A w \in Workers :
        (wpc[w] # "idle" /\ ~ValidRequest(req[w])) =>
            /\ Done(w)
            /\ ~res[w].isNil
            /\ res[w].isError
            /\ goErr[w] = "nil"
            /\ upCall[w] = NoCall
            /\ nCalls[w] = 0

C14_Witness ==
    \E w \in Workers :
        /\ Done(w)
        /\ req[w].tool = "compare_conditions"
        /\ HasString(req[w], "pid")
        /\ ~HasObject(req[w], "current_conditions")
        /\ res[w].isError
        /\ nCalls[w] = 0

\* C15: when the lookup or search fails upstream, the handler returns an
\* error-flagged result whose text wraps the provider's message, exactly one
\* upstream call was made for the invocation, and neither the renderer nor
\* the comparator ran.
C15_UpstreamFailure ==
    \A w \in Workers :
        /\ nCalls[w] <= 1
        /\ (Done(w) /\ upCall[w] # NoCall) => nCalls[w] = 1
        /\ (Done(w) /\ resp[w].err # "") =>
              /\ res[w].isError
              /\ res[w].cause = resp[w].err
              /\ res[w].msg \in {"search failed: %v", "failed to get plant details: %v"}
              /\ res[w].lines = << >>
              /\ ran[w] = "none"

C15_Witness ==
    \E w \in Workers :
        /\ Done(w)
        /\ req[w].tool = "get_plant_care"
        /\ resp[w].err = "plant not found"
        /\ res[w].cause = "plant not found"
        /\ nCalls[w] = 1

\* the successful result of a valid request r answered by p
SuccessOf(r, p) ==
    CASE r.tool = "search_plants" ->
            Result(FALSE, "", "", << >>, NoDetails, p.results)
      [] r.tool = "get_plant_care" ->
            Result(FALSE, "", "", << >>, p.details, << >>)
      [] r.tool = "get_care_summary" ->
            Result(FALSE, "", "",
                   formatCareSummary(p.details,
                       IF "metric" \in DOMAIN r.args THEN r.args["metric"].b ELSE TRUE),
                   NoDetails, << >>)
      [] OTHER ->
            Result(FALSE, "", "",
                   compareConditions(p.details, r.args["current_conditions"].m),
                   NoDetails, << >>)

\* C16: the server remains available after errors: it is never brought
\* down and its configuration is never changed, and a valid call answered
\* by the provider returns its successful result whatever calls failed
\* before it.
C16_AvailableAfterErrors ==
    /\ alive
    /\ \E c \in ServerConfigs : srv = Server(Client("apikey", c.APIKey, "", ""), c, "test-version")
    /\ \A w \in Workers :
          (Done(w) /\ ValidRequest(req[w]) /\ resp[w].err = "") =>
              res[w] = SuccessOf(req[w], resp[w])

C16_Witness ==
    /\ failed = MaxFailed
    /\ \E w \in Workers :
          /\ Done(w)
          /\ req[w].tool = "compare_conditions"
          /\ ~res[w].isError
          /\ res[w].lines # << >>
          /\ \A v \in Workers \ {w} : wpc[v] = "idle"

\* C17: every invocation of a tool handler returns a non-nil result and a
\* nil Go error; a failure is an error-flagged text payload.
C17_NeverTransportFault ==
    \A w \in Workers :
        Done(w) =>
            /\ ~res[w].isNil
            /\ goErr[w] = "nil"
            /\ (res[w].isError => res[w].msg # "")

C17_Witness ==
    \E w \in Workers, v \in Workers :
        /\ Done(w) /\ res[w].isError /\ resp[w].err # "" /\ goErr[w] = "nil"
        /\ Done(v) /\ res[v].isError /\ ~ValidRequest(req[v]) /\ goErr[v] = "nil"

\* the flag and reading a rendering depends on
RenderInput(w) ==
    IF ran[w] = "formatCareSummary"
    THEN [ details |-> resp[w].details,
           metric |-> IF "metric" \in DOMAIN req[w].args
                      THEN req[w].args["metric"].b ELSE TRUE,
           reading |-> NoConditions ]
    ELSE [ details |-> resp[w].details, metric |-> TRUE,
           reading |-> req[w].args["current_conditions"].m ]

\* the strings printed in text a
PrintedStrings(a) == UNION { { a[i].s[j] : j \in DOMAIN a[i].s } : i \in DOMAIN a }

\* C12: two renderings of the same range with the same unit flag, or of the
\* same range with the same reading, are identical whatever invocations
\* came before and whatever the trace ids of the two requests; no trace id
\* is printed.
C12_Deterministic ==
    /\ \A w \in Workers, v \in Workers :
          (/\ Done(w) /\ Done(v)
           /\ ran[w] # "none" /\ ran[w] = ran[v]
           /\ RenderInput(w) = RenderInput(v)) =>
              res[w].lines = res[v].lines
    /\ \A w \in Workers :
          (Done(w) /\ ran[w] # "none") =>
              PrintedStrings(res[w].lines) \cap TraceIDs = {}

C12_Witness ==
    \E w \in Workers, v \in Workers :
        /\ w # v
        /\ Done(w) /\ Done(v)
        /\ ran[w] = "formatCareSummary" /\ ran[v] = "formatCareSummary"
        /\ RenderInput(w) = RenderInput(v)
        /\ trace[w] # trace[v]
        /\ failed > 0
        /\ res[w].lines # << >>

\* the text of the error a request without its required arguments gets
MissingText(r) ==
    CASE r.tool = "search_plants" -> "query parameter is required and must be a string"
      [] r.tool = "compare_conditions" /\ HasString(r, "pid") ->
            "current_conditions parameter is required and must be an object"
      [] OTHER -> "pid parameter is required and must be a string"

\* the result of request r run alone, the provider answering p if called
Alone(r, p) ==
    IF ~ValidRequest(r)
    THEN Result(TRUE, MissingText(r), "", << >>, NoDetails, << >>)
    ELSE IF p.err # ""
    THEN Result(TRUE,
                IF r.tool = "search_plants"
                THEN "search failed: %v" ELSE "failed to get plant details: %v",
                p.err, << >>, NoDetails, << >>)
    ELSE SuccessOf(r, p)

\* C18: overlapping invocations do not interfere: whatever the other
\* invocation is doing, the result of an invocation equals the result of
\* its request run alone with the same upstream response, and an invocation
\* in flight keeps its own request and call.
C18_NoInterference ==
    \A w \in Workers :
        /\ Done(w) => res[w] = Alone(req[w], resp[w])
        /\ wpc[w] = "calling" =>
              /\ ValidRequest(req[w])
              /\ upCall[w].key =
                    (IF req[w].tool = "search_plants"
                     THEN req[w].args["query"].s ELSE req[w].args["pid"].s)
              /\ resp[w] = NoResponse

C18_Witness ==
    \E w \in Workers, v \in Workers :
        /\ Done(w) /\ ~res[w].isError /\ req[w].tool = "get_care_summary"
        /\ wpc[v] = "calling" /\ req[v].tool = "compare_conditions"

\* the options of openplantbook.New that select the authentication
AuthOptions == {"WithAPIKey", "WithOAuth2"}

\* the options handed to the client that are about something else
OtherOptions(out) == { i \in DOMAIN out.opts : out.opts[i] \notin AuthOptions }

\* C25: the cache settings govern the caching of the upstream client: a
\* server built from a config with caching enabled has handed the
\* configured TTL to its client, as an option besides the authentication.
C25_CacheSettingsGovern ==
    (/\ cpc = "done" /\ cfn = "New"
     /\ ~cout.isNil
     /\ cin.config.CacheEnabled) =>
        OtherOptions(cout) # {}

\* C24: search_plants forwards the query and the limit (10 when the limit
\* argument is absent) to exactly one upstream search, and returns the
\* provider's list unmodified, so no more results than the limit.
C24_SearchForwarded ==
    \A w \in Workers :
        (req[w].tool = "search_plants" /\ ValidRequest(req[w])) =>
            /\ upCall[w] =
                  Call("SearchPlants", req[w].args["query"].s,
                       IF "limit" \in DOMAIN req[w].args
                       THEN req[w].args["limit"].n ELSE 10,
                       "")
            /\ (Done(w) /\ resp[w].err = "") =>
                  /\ nCalls[w] = 1
                  /\ res[w].jsonResults = resp[w].results
                  /\ Len(res[w].jsonResults) <= upCall[w].limit

C24_Witness ==
    \E w \in Workers, v \in Workers :
        /\ Done(w) /\ req[w].tool = "search_plants"
        /\ "limit" \notin DOMAIN req[w].args
        /\ Len(res[w].jsonResults) = 2
        /\ Done(v) /\ req[v].tool = "search_plants"
        /\ upCall[v].limit = 1
        /\ Len(res[v].jsonResults) = 1

\* the language argument of request r, "" when none is supplied
LanguageArg(r) ==
    IF "language" \in DOMAIN r.args THEN r.args["language"].s ELSE ""

\* C27: the detail lookup of get_plant_care uses the language argument when
\* it is supplied and the configured default otherwise; the lookups of
\* get_care_summary and compare_conditions use the configured default
\* whatever language argument the request carries.
C27_LanguageSelection ==
    \A w \in Workers :
        upCall[w].op = "GetPlantDetails" =>
            upCall[w].lang =
                (IF req[w].tool = "get_plant_care" /\ "language" \in DOMAIN req[w].args
                 THEN req[w].args["language"].s
                 ELSE srv.config.DefaultLang)

C27_Witness ==
    \E w \in Workers, v \in Workers :
        /\ srv.config.DefaultLang = "en"
        /\ req[w].tool = "get_plant_care" /\ LanguageArg(req[w]) = "de"
        /\ upCall[w].lang = "de"
        /\ req[v].tool = "get_care_summary" /\ LanguageArg(req[v]) = "de"
        /\ upCall[v].lang = "en"

\* C26: nothing is mutated across the request/response cycle: no step of an
\* invocation changes the Server (client, config, logger, version); the
\* step that runs the renderer or the comparator leaves the request with
\* its reading map as it was, and the plant details it holds afterwards
\* are the ones the provider returned.
C26_NothingMutated ==
    [][ /\ srv' = srv
        /\ \A w \in Workers :
              (wpc[w] = "calling" /\ wpc'[w] = "done") =>
                  /\ req'[w] = req[w]
                  /\ resp'[w] \in Responses(upCall[w]) ]_vars

C26_Witness ==
    \E w \in Workers, v \in Workers :
        /\ Done(w) /\ ran[w] = "compareConditions"
        /\ req[w].args["current_conditions"].m = LowMoistureReading
        /\ resp[w].details = ScenarioDetails
        /\ Done(v) /\ ran[v] = "formatCareSummary"
        /\ LanguageArg(req[v]) = "de"
        /\ srv.config.DefaultLang = "en"

(***************************************************************************)
(* Further properties of compareConditions                                 *)
(***************************************************************************)
\* the dimensions compareConditions evaluates in the finished call
EvaluatedDims == { dim \in Dims : Evaluated(details, conditions, dim) }

\* C28: the verdicts partition the evaluated dimensions: every evaluated
\* dimension has exactly one entry, either among the issues or among the OK
\* entries, a dimension that is not evaluated has none, and issues plus OK
\* entries number as many as the evaluated dimensions, at most 4.
C28_VerdictsPartition ==
    Compared =>
        LET iss == InSec(analysis, "issue")
            oks == InSec(analysis, "ok")
        IN  /\ \A dim \in Dims :
                /\ Cardinality(At(analysis, dim)) =
                      (IF dim \in EvaluatedDims THEN 1 ELSE 0)
                /\ At(analysis, dim) \subseteq iss \cup oks
            /\ iss \cap oks = {}
            /\ \A i \in iss \cup oks : analysis[i].dim \in EvaluatedDims
            /\ Cardinality(iss) + Cardinality(oks) = Cardinality(EvaluatedDims)
            /\ Cardinality(EvaluatedDims) <= 4

C28_Witness ==
    /\ Compared
    /\ Cardinality(EvaluatedDims) = 3
    /\ Cardinality(InSec(analysis, "issue")) = 2
    /\ Cardinality(InSec(analysis, "ok")) = 1

\* the range of dimension dim has its minimum above its maximum
Degenerate(d, dim) == HiOf(d, dim) > 0 /\ LoOf(d, dim) > HiOf(d, dim)

\* C30: for a range whose minimum is greater than its maximum (maximum > 0)
\* compareConditions never reports "within range": a reading below the
\* minimum is "too low", also when it is above the maximum, and every other
\* reading is "too high".
C30_DegenerateRange ==
    Compared =>
        \A dim \in Dims :
            (Supplied(conditions, dim) /\ Degenerate(details, dim)) =>
                \A i \in At(analysis, dim) :
                    /\ analysis[i].sec = "issue"
                    /\ analysis[i].verdict =
                          (IF ValueOf(conditions, dim) < LoOf(details, dim)
                           THEN "too low" ELSE "too high")

C30_Witness ==
    /\ Compared
    /\ Supplied(conditions, "moisture") /\ Degenerate(details, "moisture")
    /\ ValueOf(conditions, "moisture") < LoOf(details, "moisture")
    /\ ValueOf(conditions, "moisture") > HiOf(details, "moisture")
    /\ \E i \in At(analysis, "moisture") : analysis[i].verdict = "too low"
    /\ Supplied(conditions, "temperature") /\ Degenerate(details, "temperature")
    /\ ValueOf(conditions, "temperature") >= LoOf(details, "temperature")
    /\ \E i \in At(analysis, "temperature") : analysis[i].verdict = "too high"

(***************************************************************************)
(* The process: main, and Run in its goroutine                             *)
(***************************************************************************)
\* make(chan os.Signal, 1)
SigChanCap == 1

\* make(chan error, 1)
ErrChanCap == 1

\* signal.Notify(sigChan, os.Interrupt, syscall.SIGTERM)
Signals == {"SIGINT", "SIGTERM"}

\* the tools of registerTools, in the order of its AddTool calls
ToolList ==
    << [ name |-> "search_plants", handler |-> "handleSearchPlants" ],
       [ name |-> "get_plant_care", handler |-> "handleGetPlantCare" ],
       [ name |-> "get_care_summary", handler |-> "handleGetCareSummary" ],
       [ name |-> "compare_conditions", handler |-> "handleCompareConditions" ] >>

\* mcpServer.AddTool(tool, handler)
AddTool(registry, tool) ==
    [ t \in DOMAIN registry \cup { tool.name } |->
        IF t = tool.name THEN tool.handler ELSE registry[t] ]

\* the tool names a client may call, known to the server or not
CallableTools == { ToolList[i].name : i \in DOMAIN ToolList } \cup {"server_info"}

\* os.Exit(code), or main returning (code 0)
Exit(code, cause) ==
    /\ exitCode' = code
    /\ exitCause' = cause
    /\ mpc' = "exited"

Running == exitCode = -1

\* -version: print the build information and exit
ShowVersion ==
    /\ Running
    /\ mpc = "start"
    /\ Exit(0, "version")
    /\ UNCHANGED <<gpc, mcfg, msrv, sigChan, errChan, cancelled, branch, logged,
                   tools, runErr, lastCall>>
    /\ UNCHANGED <<evalVars, srvVars, cfgVars>>

\* server.LoadConfig(*configPath); a failure exits with status 1
MainLoadConfig ==
    /\ Running
    /\ mpc = "start"
    /\ \E path \in ConfigPaths, env \in EnvSettings, file \in Files :
        LET out == LoadConfig(path, env, file)
        IN  IF out.err # ""
            THEN Exit(1, "config") /\ UNCHANGED mcfg
            ELSE /\ mcfg' = out.config
                 /\ mpc' = "loaded"
                 /\ UNCHANGED <<exitCode, exitCause>>
    /\ UNCHANGED <<gpc, msrv, sigChan, errChan, cancelled, branch, logged,
                   tools, runErr, lastCall>>
    /\ UNCHANGED <<evalVars, srvVars, cfgVars>>

\* server.New(config, version); a failure exits with status 1
MainNew ==
    /\ Running
    /\ mpc = "loaded"
    /\ \E halfOK \in BOOLEAN :
        LET out == New(mcfg, "dev", halfOK)
        IN  IF out.err # ""
            THEN Exit(1, "new") /\ UNCHANGED msrv
            ELSE /\ msrv' = out.server
                 /\ mpc' = "created"
                 /\ UNCHANGED <<exitCode, exitCause>>
    /\ UNCHANGED <<gpc, mcfg, sigChan, errChan, cancelled, branch, logged,
                   tools, runErr, lastCall>>
    /\ UNCHANGED <<evalVars, srvVars, cfgVars>>

\* the context, signal.Notify, the error channel and "go func": main
\* arrives at its select, Run starts in the goroutine
MainStart ==
    /\ Running
    /\ mpc = "created"
    /\ mpc' = "select"
    /\ gpc' = "run"
    /\ UNCHANGED <<mcfg, msrv, sigChan, errChan, cancelled, exitCode, exitCause,
                   branch, logged, tools, runErr, lastCall>>
    /\ UNCHANGED <<evalVars, srvVars, cfgVars>>

\* SIGINT or SIGTERM arrives: the runtime puts it in sigChan without
\* blocking, and drops it when the channel is full
SignalArrives ==
    /\ Running
    /\ mpc \in {"select", "signalled", "finishing"}
    /\ \E sig \in Signals :
        sigChan' = IF Len(sigChan) < SigChanCap THEN Append(sigChan, sig) ELSE sigChan
    /\ UNCHANGED <<mpc, gpc, mcfg, msrv, errChan, cancelled, exitCode, exitCause,
                   branch, logged, tools, runErr, lastCall>>
    /\ UNCHANGED <<evalVars, srvVars, cfgVars>>

\* registerTools: the next AddTool
RegisterNextTool ==
    /\ Running
    /\ gpc = "run"
    /\ Cardinality(DOMAIN tools) < Len(ToolList)
    /\ tools' = AddTool(tools, ToolList[Cardinality(DOMAIN tools) + 1])
    /\ UNCHANGED <<mpc, gpc, mcfg, msrv, sigChan, errChan, cancelled, exitCode,
                   exitCause, branch, logged, runErr, lastCall>>
    /\ UNCHANGED <<evalVars, srvVars, cfgVars>>

\* Run starting the transport before registerTools is through
RunServeStdioEarly ==
    /\ Running
    /\ gpc = "run"
    /\ gpc' = "serving"
    /\ UNCHANGED <<mpc, mcfg, msrv, sigChan, errChan, cancelled, exitCode, exitCause,
                   branch, logged, tools, runErr, lastCall>>
    /\ UNCHANGED <<evalVars, srvVars, cfgVars>>

\* registerTools has returned nil; Run calls server.ServeStdio
RunServeStdio ==
    /\ Running
    /\ gpc = "run"
    /\ Cardinality(DOMAIN tools) = Len(ToolList)
    /\ gpc' = "serving"
    /\ UNCHANGED <<mpc, mcfg, msrv, sigChan, errChan, cancelled, exitCode, exitCause,
                   branch, logged, tools, runErr, lastCall>>
    /\ UNCHANGED <<evalVars, srvVars, cfgVars>>

\* the transport receives a tool call and dispatches it by name
ReceiveToolCall ==
    /\ Running
    /\ gpc = "serving"
    /\ \E t \in CallableTools :
        lastCall' = [ tool |-> t,
                      handler |-> IF t \in DOMAIN tools THEN tools[t]
                                  ELSE "tool not found" ]
    /\ UNCHANGED <<mpc, gpc, mcfg, msrv, sigChan, errChan, cancelled, exitCode,
                   exitCause, branch, logged, tools, runErr>>
    /\ UNCHANGED <<evalVars, srvVars, cfgVars>>

\* server.ServeStdio returns, with nil or with an error, and so does Run
ServeStdioReturns ==
    /\ Running
    /\ gpc = "serving"
    /\ \E e \in {"", "serve stdio: %w"} : runErr' = e
    /\ gpc' = "returned"
    /\ UNCHANGED <<mpc, mcfg, msrv, sigChan, errChan, cancelled, exitCode, exitCause,
                   branch, logged, tools, lastCall>>
    /\ UNCHANGED <<evalVars, srvVars, cfgVars>>

\* the send on an error channel without a buffer: it completes only while
\* main waits in its select
GoSendUnbuffered ==
    /\ Running
    /\ gpc = "returned"
    /\ IF mpc = "select"
       THEN /\ errChan' = Append(errChan, runErr)
            /\ gpc' = "sent"
       ELSE /\ gpc' = "blocked"
            /\ UNCHANGED errChan
    /\ UNCHANGED <<mpc, mcfg, msrv, sigChan, cancelled, exitCode, exitCause,
                   branch, logged, tools, runErr, lastCall>>
    /\ UNCHANGED <<evalVars, srvVars, cfgVars>>

\* errChan <- srv.Run(ctx): the send completes when the buffer has room
GoSend ==
    /\ Running
    /\ gpc = "returned"
    /\ IF Len(errChan) < ErrChanCap
       THEN /\ errChan' = Append(errChan, runErr)
            /\ gpc' = "sent"
       ELSE /\ gpc' = "blocked"
            /\ UNCHANGED errChan
    /\ UNCHANGED <<mpc, mcfg, msrv, sigChan, cancelled, exitCode, exitCause,
                   branch, logged, tools, runErr, lastCall>>
    /\ UNCHANGED <<evalVars, srvVars, cfgVars>>

\* the signal case of the select exiting with status 1
MainSelectSignalExits ==
    /\ Running
    /\ mpc = "select"
    /\ Len(sigChan) > 0
    /\ sigChan' = Tail(sigChan)
    /\ branch' = "signal"
    /\ Exit(1, "signal")
    /\ UNCHANGED <<gpc, mcfg, msrv, errChan, cancelled, logged, tools, runErr, lastCall>>
    /\ UNCHANGED <<evalVars, srvVars, cfgVars>>

\* select, case sig := <-sigChan
MainSelectSignal ==
    /\ Running
    /\ mpc = "select"
    /\ Len(sigChan) > 0
    /\ sigChan' = Tail(sigChan)
    /\ branch' = "signal"
    /\ mpc' = "signalled"
    /\ UNCHANGED <<gpc, mcfg, msrv, errChan, cancelled, exitCode, exitCause,
                   logged, tools, runErr, lastCall>>
    /\ UNCHANGED <<evalVars, srvVars, cfgVars>>

\* cancel() in the signal case
MainCancel ==
    /\ Running
    /\ mpc = "signalled"
    /\ cancelled' = TRUE
    /\ mpc' = "finishing"
    /\ UNCHANGED <<gpc, mcfg, msrv, sigChan, errChan, exitCode, exitCause,
                   branch, logged, tools, runErr, lastCall>>
    /\ UNCHANGED <<evalVars, srvVars, cfgVars>>

\* select, case err := <-errChan: a non-nil error exits with status 1
MainSelectResult ==
    /\ Running
    /\ mpc = "select"
    /\ Len(errChan) > 0
    /\ errChan' = Tail(errChan)
    /\ branch' = "result"
    /\ IF Head(errChan) # ""
       THEN Exit(1, "run")
       ELSE /\ mpc' = "finishing"
            /\ UNCHANGED <<exitCode, exitCause>>
    /\ UNCHANGED <<gpc, mcfg, msrv, sigChan, cancelled, logged, tools, runErr, lastCall>>
    /\ UNCHANGED <<evalVars, srvVars, cfgVars>>

\* "shutdown complete", the deferred cancel(), and main returns
MainShutdownComplete ==
    /\ Running
    /\ mpc = "finishing"
    /\ logged' = TRUE
    /\ cancelled' = TRUE
    /\ Exit(0, "shutdown")
    /\ UNCHANGED <<gpc, mcfg, msrv, sigChan, errChan, branch, tools, runErr, lastCall>>
    /\ UNCHANGED <<evalVars, srvVars, cfgVars>>

NextMain ==
    \/ ShowVersion
    \/ MainLoadConfig
    \/ MainNew
    \/ MainStart
    \/ SignalArrives
    \/ RegisterNextTool
    \/ RunServeStdio
    \/ ReceiveToolCall
    \/ ServeStdioReturns
    \/ GoSend
    \/ MainSelectSignal
    \/ MainCancel
    \/ MainSelectResult
    \/ MainShutdownComplete

\* a goroutine that can take a step takes it; a select with a ready case
\* proceeds with one of the ready cases
FairMain ==
    /\ WF_vars(MainNew)
    /\ WF_vars(MainStart)
    /\ WF_vars(MainSelectSignal \/ MainSelectResult)
    /\ WF_vars(MainCancel)
    /\ WF_vars(MainShutdownComplete)
    /\ WF_vars(RegisterNextTool)
    /\ WF_vars(RunServeStdio)
    /\ WF_vars(GoSend)

SpecMain == Init /\ [][NextMain]_vars /\ FairMain

MainTypeOK ==
    /\ mpc \in {"start", "loaded", "created", "select", "signalled", "finishing", "exited"}
    /\ gpc \in {"none", "run", "serving", "returned", "sent", "blocked"}
    /\ exitCode \in {-1, 0, 1}
    /\ Len(sigChan) <= SigChanCap
    /\ Len(errChan) <= ErrChanCap
    /\ branch \in {"none", "signal", "result"}

(***************************************************************************)
(* Properties of the process                                               *)
(***************************************************************************)
\* the registry of a server whose tools are all registered
AllTools == [ i \in DOMAIN ToolList |-> ToolList[i] ]

FourTools == {"search_plants", "get_plant_care", "get_care_summary", "compare_conditions"}

HandlerOf(t) ==
    CASE t = "search_plants" -> "handleSearchPlants"
      [] t = "get_plant_care" -> "handleGetPlantCare"
      [] t = "get_care_summary" -> "handleGetCareSummary"
      [] OTHER -> "handleCompareConditions"

\* why the process may exit with status 1, and that it then never logged
\* "shutdown complete" nor took the signal; a normal exit after the select
\* has cancelled the context and logged "shutdown complete"
ExitStatus ==
    /\ exitCode = 1 =>
          /\ exitCause \in {"config", "new", "run"}
          /\ exitCause = "config" => mcfg = NoConfig
          /\ exitCause = "new" => msrv = NoServer
          /\ exitCause = "run" => (branch = "result" /\ runErr # "")
          /\ ~logged
    /\ branch = "signal" => exitCode # 1
    /\ (exitCode = 0 /\ branch # "none") => (logged /\ cancelled)

\* C22 as claimed: once the server is running, a signal that has arrived
\* leads main to cancel the context and reach "shutdown complete" with a
\* normal exit in every interleaving with the server goroutine: a process
\* that ends after a signal arrived has exit status 0, the context
\* cancelled and "shutdown complete" logged.
C22_AsClaimed ==
    /\ ExitStatus
    /\ (exitCode # -1 /\ (Len(sigChan) > 0 \/ branch = "signal")) =>
          (exitCode = 0 /\ cancelled /\ logged)

\* C22 (amended): graceful shutdown.  Once main has taken a signal from its
\* channel it cancels the context and reaches "shutdown complete" and a
\* normal exit, whatever the server goroutine does meanwhile; a signal that arrives while main waits
\* always leads the process to exit; and the exit status is 1 only when
\* loading the configuration failed, creating the server failed, or main
\* took a non-nil error of Run, which it can only do before taking a signal.
C22_GracefulShutdown ==
    /\ []ExitStatus
    /\ (branch = "signal") ~> (exitCode = 0 /\ cancelled /\ logged)
    /\ (mpc = "select" /\ Len(sigChan) > 0) ~> (exitCode # -1)

C22_Witness ==
    /\ exitCode = 0
    /\ branch = "signal"
    /\ cancelled /\ logged
    /\ gpc = "sent" /\ runErr # ""

C29_SendNeverBlocks ==
    /\ [](gpc # "blocked" /\ Len(errChan) <= ErrChanCap)
    /\ [](mpc \in {"signalled", "finishing"} => branch \in {"signal", "result"})
    /\ [][branch # "none" => branch' = branch]_vars
    /\ (gpc = "returned") ~> (gpc = "sent" \/ exitCode # -1)

C29_Witness ==
    /\ gpc = "sent"
    /\ branch = "signal"
    /\ Len(errChan) = 1
    /\ exitCode = -1

====
